---------------------------- MODULE Spec2Model ----------------------------
(***************************************************************************)
(* Model of the search core of the student media portal:                   *)
(*   SearchManager  (src/student-media-portal/js/search.js)                *)
(*   ArticleManager (src/unnamed/part_002)                                 *)
(*   AuthManager    (src/student-media-portal/js/auth.js)                  *)
(*                                                                         *)
(* A JavaScript string is a sequence of one-character strings.  Cyrillic   *)
(* letters of the portal's texts are written in Latin transliteration,     *)
(* lower case for lower case and upper case for upper case: toLowerCase    *)
(* and the character class of extractWords (word characters, white space, *)
(* the Cyrillic range) treat the letters of both scripts alike.            *)
(*                                                                         *)
(* A score is kept as score2, twice the JavaScript number, so that the     *)
(* half weights of partial matches stay integers.                          *)
(***************************************************************************)
EXTENDS Integers, Sequences, FiniteSets, TLC

\* ------------------------------------------------------------- characters
LowerChars ==
    <<"a","b","c","d","e","f","g","h","i","j","k","l","m",
      "n","o","p","q","r","s","t","u","v","w","x","y","z">>

UpperChars ==
    <<"A","B","C","D","E","F","G","H","I","J","K","L","M",
      "N","O","P","Q","R","S","T","U","V","W","X","Y","Z">>

DigitChars == {"0","1","2","3","4","5","6","7","8","9"}

SpaceChars == {" "}

Range(s) == { s[i] : i \in DOMAIN s }

\* the characters of a string literal
Chars(s) == [i \in 1..Len(s) |-> SubSeq(s, i, i)]

\* the lower-case letter of every upper-case letter
LowerOfUpper ==
    [c \in Range(UpperChars) |->
        LowerChars[CHOOSE i \in DOMAIN UpperChars : UpperChars[i] = c]]

\* String.prototype.toLowerCase, one character
LowerOf(c) == IF c \in DOMAIN LowerOfUpper THEN LowerOfUpper[c] ELSE c

\* String.prototype.toLowerCase
ToLowerCase(text) == [i \in DOMAIN text |-> LowerOf(text[i])]

\* the characters that the pattern of extractWords leaves in place: \w, \s
\* and the Cyrillic letters (written here as Latin ones)
KeptChars ==
    Range(LowerChars) \cup Range(UpperChars) \cup DigitChars \cup {"_"}
    \cup SpaceChars

IsKeptChar(c) == c \in KeptChars

\* String.prototype.includes
Includes(hay, needle) ==
    \E i \in 1..(Len(hay) - Len(needle) + 1) :
        SubSeq(hay, i, i + Len(needle) - 1) = needle

\* Array.prototype.slice(0, n)
Slice(seq, n) == SubSeq(seq, 1, IF Len(seq) < n THEN Len(seq) ELSE n)

\* the concatenation of the first n sequences of seqs
RECURSIVE Flatten(_, _)
Flatten(seqs, n) ==
    IF n = 0 THEN <<>> ELSE Flatten(seqs, n - 1) \o seqs[n]

\* Array.prototype.join(' ')
JoinSpace(parts) ==
    Flatten([i \in DOMAIN parts |->
                IF i = 1 THEN parts[i] ELSE <<" ">> \o parts[i]],
            Len(parts))

\* Array.prototype.filter by position: the elements of seq at the
\* positions where keep is true, in order
KeepAt(seq, keep) ==
    LET at   == [i \in DOMAIN seq |-> [pos |-> i, val |-> seq[i]]]
        kept == SelectSeq(at, LAMBDA e : keep[e.pos])
    IN  [k \in DOMAIN kept |-> kept[k].val]

\* content.replace(/<[^>]*>/g, ''): a match runs from a "<" to the first
\* ">" after it, so position p is removed when a ">" stands at or after p
\* and a "<" stands at or before p with no ">" between it and p.
InsideTag(text, p) ==
    /\ \E c \in p..Len(text) : text[c] = ">"
    /\ \E o \in 1..p :
          /\ text[o] = "<"
          /\ \A k \in o..(p-1) : text[k] # ">"

StripTags(text) == KeepAt(text, [p \in DOMAIN text |-> ~InsideTag(text, p)])

\* String.prototype.split(/\s+/) without its empty pieces: the maximal runs
\* of characters that are not white space, in order
SplitSpaces(text) ==
    LET isWord(i) == text[i] \notin SpaceChars
        starts == KeepAt([i \in DOMAIN text |-> i],
                         [i \in DOMAIN text |->
                             isWord(i) /\ (i = 1 \/ ~isWord(i - 1))])
        end(i) == CHOOSE j \in i..Len(text) :
                     /\ \A k \in i..j : isWord(k)
                     /\ (j = Len(text) \/ ~isWord(j + 1))
    IN  [k \in DOMAIN starts |-> SubSeq(text, starts[k], end(starts[k]))]

\* the length below which extractWords drops a word
MinWordLen == 2

\* a tokenizer that keeps the words of one character
ExtractWordsAnyLength(text) ==
    LET lower    == ToLowerCase(text)
        replaced == [i \in DOMAIN lower |->
                        IF IsKeptChar(lower[i]) THEN lower[i] ELSE " "]
    IN  SplitSpaces(replaced)

\* SearchManager.extractWords; the empty pieces of split are dropped by its
\* filter with every other piece shorter than MinWordLen
ExtractWords(text) ==
    LET lower    == ToLowerCase(text)
        replaced == [i \in DOMAIN lower |->
                        IF IsKeptChar(lower[i]) THEN lower[i] ELSE " "]
    IN  SelectSeq(SplitSpaces(replaced), LAMBDA w : Len(w) >= MinWordLen)

\* ------------------------------------------------------------------ words
\* the upper-case letter of every lower-case letter
UpperOfLower ==
    [c \in Range(LowerChars) |->
        UpperChars[CHOOSE i \in DOMAIN LowerChars : LowerChars[i] = c]]

\* String.prototype.toUpperCase, one character
UpperOf(c) == IF c \in DOMAIN UpperOfLower THEN UpperOfLower[c] ELSE c

\* String.prototype.toUpperCase
ToUpperCase(text) == [i \in DOMAIN text |-> UpperOf(text[i])]

Sp == <<" ">>

\* String.prototype.trim
Trim(text) ==
    LET isWord(i) == text[i] \notin SpaceChars
    IN  IF \A i \in DOMAIN text : ~isWord(i) THEN <<>>
        ELSE SubSeq(text,
                    CHOOSE i \in DOMAIN text :
                        isWord(i) /\ \A k \in 1..(i-1) : ~isWord(k),
                    CHOOSE j \in DOMAIN text :
                        isWord(j) /\ \A k \in (j+1)..Len(text) : ~isWord(k))

\* ------------------------------------------------------ program constants
\* MediaPortal.ARTICLE_STATUS
ARTICLE_STATUS ==
    [DRAFT |-> "draft", PENDING |-> "pending",
     PUBLISHED |-> "published", ARCHIVED |-> "archived"]

\* MediaPortal.ROLES
ROLES == [ADMIN |-> "admin", EDITOR |-> "editor", AUTHOR |-> "author"]

\* MediaPortal.CATEGORIES, in the order of Object.values; the names are the
\* transliterated labels
CATEGORIES ==
    << [key |-> <<"R","E","P","O","R","T","A","G","E">>,
        name |-> <<"R","e","p","o","r","t","a","z","h">>],
       [key |-> <<"I","N","T","E","R","V","I","E","W">>,
        name |-> <<"I","n","t","e","r","v","y","u">>],
       [key |-> <<"O","P","I","N","I","O","N">>,
        name |-> <<"M","n","e","n","i","e">>],
       [key |-> <<"P","H","O","T","O","P","R","O","J","E","C","T">>,
        name |-> <<"F","o","t","o","p","r","o","e","k","t">>],
       [key |-> <<"P","O","D","C","A","S","T">>,
        name |-> <<"P","o","d","k","a","s","t","y">>],
       [key |-> <<"N","E","W","S">>,
        name |-> <<"N","o","v","o","s","t","i">>] >>

\* MediaPortal.CATEGORIES[category?.toUpperCase()]?.name || category
CategoryLabel(category) ==
    IF \E i \in DOMAIN CATEGORIES : CATEGORIES[i].key = ToUpperCase(category)
    THEN CATEGORIES[CHOOSE i \in DOMAIN CATEGORIES :
                        CATEGORIES[i].key = ToUpperCase(category)].name
    ELSE category

\* the bonuses of calculateWordRelevance and the weight of an author posting
BaseRelevance == 1
TitleBonus == 3
LeadBonus == 2
TagBonus == 2
UserRelevance == 1

\* the slices of searchInIndex
MaxArticleResults == 20
MaxAuthorResults == 10

\* ------------------------------------------------------------ index build
\* The index is the Map word -> postings, kept as the sequence of its
\* entries [word, postings] in insertion order (the order Map.forEach
\* visits them).

\* Map.prototype.has
IndexHas(index, word) == \E i \in DOMAIN index : index[i].word = word

\* Map.prototype.get, of a word the index has
IndexGet(index, word) ==
    index[CHOOSE i \in DOMAIN index : index[i].word = word].postings

\* a relevance that forgets the lead
CalculateWordRelevanceNoLead(word, article) ==
    BaseRelevance
    + (IF Includes(ToLowerCase(article.title), word) THEN TitleBonus ELSE 0)
    + (IF \E t \in DOMAIN article.tags :
             Includes(ToLowerCase(article.tags[t]), word)
       THEN TagBonus ELSE 0)

\* a relevance that gives a tag the bonus of the title
CalculateWordRelevanceTagAsTitle(word, article) ==
    BaseRelevance
    + (IF Includes(ToLowerCase(article.title), word) THEN TitleBonus ELSE 0)
    + (IF Includes(ToLowerCase(article.lead), word) THEN LeadBonus ELSE 0)
    + (IF \E t \in DOMAIN article.tags :
             Includes(ToLowerCase(article.tags[t]), word)
       THEN TitleBonus ELSE 0)


\* SearchManager.calculateWordRelevance
CalculateWordRelevance(word, article) ==
    BaseRelevance
    + (IF Includes(ToLowerCase(article.title), word) THEN TitleBonus ELSE 0)
    + (IF Includes(ToLowerCase(article.lead), word) THEN LeadBonus ELSE 0)
    + (IF \E t \in DOMAIN article.tags :
             Includes(ToLowerCase(article.tags[t]), word)
       THEN TagBonus ELSE 0)

\* the posting indexArticle pushes: scalar fields copied from the article
ArticlePosting(word, article) ==
    [type |-> "article", id |-> article.id, title |-> article.title,
     lead |-> article.lead, category |-> article.category,
     publishedAt |-> article.publishedAt,
     relevance |-> CalculateWordRelevance(word, article)]

\* the posting indexUser pushes
UserPosting(word, user) ==
    [type |-> "author", id |-> user.id,
     name |-> user.firstName \o Sp \o user.lastName,
     role |-> user.role, bio |-> user.bio, relevance |-> UserRelevance]

\* the searchableText of indexArticle
ArticleSearchableText(article) ==
    ToLowerCase(JoinSpace(
        <<article.title, article.lead, StripTags(article.content)>>
        \o article.tags
        \o <<CategoryLabel(article.category)>>))

\* the searchableText of indexUser
UserSearchableText(user) ==
    ToLowerCase(JoinSpace(<<user.firstName, user.lastName, user.bio>>))

\* The pushes of a forEach loop are kept as one sequence of [word, posting]
\* in the order the loop makes them, and applied to the Map together.

\* the pushes of indexArticle: one for every word of the searchable text,
\* a repeated word included
ArticlePushes(article) ==
    LET words == ExtractWords(ArticleSearchableText(article))
    IN  [i \in DOMAIN words |->
            [word |-> words[i], posting |-> ArticlePosting(words[i], article)]]

\* the pushes of indexUser
UserPushes(user) ==
    LET words == ExtractWords(UserSearchableText(user))
    IN  [i \in DOMAIN words |->
            [word |-> words[i], posting |-> UserPosting(words[i], user)]]

\* the postings pushed under a word, in order
PushedUnder(pushes, word) ==
    LET sel == SelectSeq(pushes, LAMBDA p : p.word = word)
    IN  [i \in DOMAIN sel |-> sel[i].posting]

\* "if (!has(word)) set(word, []); get(word).push(posting)" for every push in
\* turn: an entry the Map has gets the postings pushed under its word
\* appended, and a word the Map lacks gets a new entry at the end when its
\* first push comes
IndexPushAll(index, pushes) ==
    LET firsts == KeepAt(pushes, [k \in DOMAIN pushes |->
                      /\ ~IndexHas(index, pushes[k].word)
                      /\ \A j \in 1..(k-1) : pushes[j].word # pushes[k].word])
    IN  [i \in DOMAIN index |->
            [index[i] EXCEPT !.postings = @ \o PushedUnder(pushes, index[i].word)]]
        \o [i \in DOMAIN firsts |->
               [word |-> firsts[i].word,
                postings |-> PushedUnder(pushes, firsts[i].word)]]

\* SearchManager.indexArticle
IndexArticle(index, article) == IndexPushAll(index, ArticlePushes(article))

\* SearchManager.indexUser
IndexUser(index, user) == IndexPushAll(index, UserPushes(user))

\* a test that lets every article but a draft into the index
IsIndexedUnlessDraft(article) == article.status # ARTICLE_STATUS.DRAFT


\* the filter of buildSearchIndex: only published articles are indexed
IsIndexed(article) == article.status = ARTICLE_STATUS.PUBLISHED

\* articles.forEach(article => { if (published) indexArticle(article) })
IndexArticles(index, arts) ==
    IndexPushAll(index,
        Flatten([i \in DOMAIN arts |->
                    IF IsIndexed(arts[i]) THEN ArticlePushes(arts[i])
                    ELSE <<>>],
                Len(arts)))

\* users.forEach(user => indexUser(user))
IndexUsers(index, usrs) ==
    IndexPushAll(index,
        Flatten([i \in DOMAIN usrs |-> UserPushes(usrs[i])], Len(usrs)))

\* a clear that leaves the Map as it is
ClearIndexKeeping(index) == index

\* a build that does not clear the Map
BuildIndexNoClear(index, arts, usrs) ==
    IndexUsers(IndexArticles(index, arts), usrs)

\* this.searchIndex.clear()
ClearIndex(index) == <<>>

\* the index that buildSearchIndex leaves, from the index it finds and the
\* articles and users it reads
BuildIndex(index, arts, usrs) ==
    IndexUsers(IndexArticles(ClearIndex(index), arts), usrs)

\* ----------------------------------------------------------------- search
\* a sort with the comparator turned round, "a.key - b.key"
SortPermAsc(keys) ==
    LET pos == [i \in DOMAIN keys |->
                   1 + Cardinality({ j \in DOMAIN keys :
                           \/ keys[j] < keys[i]
                           \/ (keys[j] = keys[i] /\ j < i) })]
    IN  [p \in DOMAIN keys |-> CHOOSE i \in DOMAIN keys : pos[i] = p]

\* Array.prototype.sort with a comparator "b.key - a.key" (stable): the
\* permutation that orders the keys downwards and keeps equal keys in place.
SortPermDesc(keys) ==
    LET pos == [i \in DOMAIN keys |->
                   1 + Cardinality({ j \in DOMAIN keys :
                           \/ keys[j] > keys[i]
                           \/ (keys[j] = keys[i] /\ j < i) })]
    IN  [p \in DOMAIN keys |-> CHOOSE i \in DOMAIN keys : pos[i] = p]

\* `${result.type}-${result.id}`
ResultKey(posting) == <<posting.type, posting.id>>

\* A hit is one execution of "resultMap.get(key).score += ...": the posting
\* and amount2, twice the amount added.

\* the hits of the exact lookup of one query word: the full relevance of
\* every posting under the word
ExactHits(index, word) ==
    IF IndexHas(index, word)
    THEN LET postings == IndexGet(index, word)
         IN  [i \in DOMAIN postings |->
                 [posting |-> postings[i],
                  amount2 |-> 2 * postings[i].relevance]]
    ELSE <<>>

\* a partial lookup that does not leave out the exact match
IsPartialMatchOrExact(indexWord, word) == Includes(indexWord, word)

\* the test of the partial lookup
IsPartialMatch(indexWord, word) ==
    Includes(indexWord, word) /\ indexWord # word

\* the hits of the partial lookup of one query word: half the relevance of
\* every posting of every other entry whose word contains the query word,
\* in the order Map.forEach visits the entries
PartialHits(index, word) ==
    Flatten([e \in DOMAIN index |->
                IF IsPartialMatch(index[e].word, word)
                THEN [i \in DOMAIN index[e].postings |->
                         [posting |-> index[e].postings[i],
                          amount2 |-> index[e].postings[i].relevance]]
                ELSE <<>>],
            Len(index))

\* the hits of queryWords.forEach: for every query word, a repeated one
\* included, its exact hits and then its partial hits
AllHits(index, words) ==
    Flatten([w \in DOMAIN words |->
                ExactHits(index, words[w]) \o PartialHits(index, words[w])],
            Len(words))

\* the sum of the amounts of the first n hits
RECURSIVE SumAmounts(_, _)
SumAmounts(hits, n) ==
    IF n = 0 THEN 0 ELSE SumAmounts(hits, n - 1) + hits[n].amount2

\* a resultMap that takes every hit as a result of its own
ResultMapOfEveryHit(hits) ==
    [i \in DOMAIN hits |->
        [key |-> ResultKey(hits[i].posting),
         doc |-> hits[i].posting,
         score2 |-> hits[i].amount2]]


\* resultMap after the loop, as the sequence of its entries in insertion
\* order: a key enters at its first hit, with a copy of that hit's posting
\* ({...result, score: 0}), and its score is the sum of its hits' amounts
ResultMapOfHits(hits) ==
    LET firsts == KeepAt(hits, [k \in DOMAIN hits |->
                      \A j \in 1..(k-1) :
                          ResultKey(hits[j].posting) # ResultKey(hits[k].posting)])
    IN  [i \in DOMAIN firsts |->
            LET mine == SelectSeq(hits, LAMBDA h :
                            ResultKey(h.posting) = ResultKey(firsts[i].posting))
            IN  [key |-> ResultKey(firsts[i].posting),
                 doc |-> firsts[i].posting,
                 score2 |-> SumAmounts(mine, Len(mine))]]

\* the resultMap of searchInIndex after its loop over the query words
ResultMapOf(index, query) ==
    ResultMapOfHits(AllHits(index, ExtractWords(query)))

\* Array.from(resultMap.values()).sort((a, b) => b.score - a.score)
SortByScore(resultMap) ==
    LET perm == SortPermDesc([i \in DOMAIN resultMap |-> resultMap[i].score2])
    IN  [p \in DOMAIN resultMap |->
            [doc |-> resultMap[perm[p]].doc,
             score2 |-> resultMap[perm[p]].score2]]

\* a search whose total counts the documents it returns
SearchInIndexCountingReturned(index, query) ==
    LET sorted   == SortByScore(ResultMapOf(index, query))
        articles == Slice(SelectSeq(sorted, LAMBDA r : r.doc.type = "article"),
                          MaxArticleResults)
        authors  == Slice(SelectSeq(sorted, LAMBDA r : r.doc.type = "author"),
                          MaxAuthorResults)
    IN  [articles |-> articles,
         authors  |-> authors,
         total    |-> Len(articles) + Len(authors),
         query    |-> query]

\* SearchManager.searchInIndex
SearchInIndex(index, query) ==
    LET sorted   == SortByScore(ResultMapOf(index, query))
        articles == SelectSeq(sorted, LAMBDA r : r.doc.type = "article")
        authors  == SelectSeq(sorted, LAMBDA r : r.doc.type = "author")
    IN  [articles |-> Slice(articles, MaxArticleResults),
         authors  |-> Slice(authors, MaxAuthorResults),
         total    |-> Len(articles) + Len(authors),
         query    |-> query]

\* the result performSearch returns without searching
EmptyResult == [articles |-> <<>>, authors |-> <<>>, total |-> 0]

\* the length below which performSearch does not search
MinQueryLen == 2

\* the early return of performSearch: !query || query.length < 2
IsTooShort(query) == query = <<>> \/ Len(query) < MinQueryLen

\* the value performSearch returns
SearchResult(index, query) ==
    IF IsTooShort(query) THEN EmptyResult ELSE SearchInIndex(index, query)

\* ------------------------------------------------------------ suggestions
\* counts.set(key, (counts.get(key) || 0) + 1) on a Map kept as the sequence
\* of its entries [key, count] in insertion order
CountKey(counts, key) ==
    IF \E i \in DOMAIN counts : counts[i].key = key
    THEN [i \in DOMAIN counts |->
            IF counts[i].key = key
            THEN [counts[i] EXCEPT !.count = @ + 1]
            ELSE counts[i]]
    ELSE Append(counts, [key |-> key, count |-> 1])

\* keys.forEach(key => count it), from key i on
RECURSIVE CountKeys(_, _, _)
CountKeys(counts, keys, i) ==
    IF i > Len(keys) THEN counts
    ELSE CountKeys(CountKey(counts, keys[i]), keys, i + 1)

\* Array.from(counts.entries()).sort((a, b) => b[1] - a[1])
SortByCount(counts) ==
    LET perm == SortPermDesc([i \in DOMAIN counts |-> counts[i].count])
    IN  [p \in DOMAIN counts |-> counts[perm[p]]]

\* the slices of getPopularSearchTerms and getPopularTags
MaxPopularTerms == 10
MaxPopularTags == 5

\* this.searchHistory.forEach(query => count its words), from entry i on
\* (the counts of an entry are computed before the next entry is taken)
RECURSIVE CountHistoryWords(_, _, _)
CountHistoryWords(counts, history, i) ==
    IF i > Len(history) THEN counts
    ELSE LET counted == CountKeys(counts, ExtractWords(history[i].query), 1)
         IN  IF counted = <<>>
             THEN CountHistoryWords(<<>>, history, i + 1)
             ELSE CountHistoryWords(counted, history, i + 1)

\* SearchManager.getPopularSearchTerms
GetPopularSearchTerms(history) ==
    LET top == Slice(SortByCount(CountHistoryWords(<<>>, history, 1)),
                     MaxPopularTerms)
    IN  [i \in DOMAIN top |->
            [type |-> "term", text |-> top[i].key, count |-> top[i].count]]

\* articles.forEach(article => count its lower-cased tags when it is
\* published), from article i on
RECURSIVE CountTags(_, _, _)
CountTags(counts, arts, i) ==
    IF i > Len(arts) THEN counts
    ELSE CountTags(
             IF arts[i].status = ARTICLE_STATUS.PUBLISHED
             THEN CountKeys(counts,
                            [t \in DOMAIN arts[i].tags |->
                                ToLowerCase(arts[i].tags[t])], 1)
             ELSE counts,
             arts, i + 1)

\* SearchManager.getPopularTags
GetPopularTags(arts) ==
    LET top == Slice(SortByCount(CountTags(<<>>, arts, 1)), MaxPopularTags)
    IN  [i \in DOMAIN top |-> top[i].key]

\* the searchSuggestions that buildSuggestions leaves: popular terms, then
\* the category labels, then the popular tags
BuildSuggestions(history, arts) ==
    LET tags == GetPopularTags(arts)
    IN  GetPopularSearchTerms(history)
        \o [i \in DOMAIN CATEGORIES |->
               [type |-> "category", text |-> CATEGORIES[i].name]]
        \o [i \in DOMAIN tags |-> [type |-> "tag", text |-> tags[i]]]

\* the slice of getSuggestions
MaxSuggestions == 8

\* a getSuggestions that does not cut the list
GetSuggestionsUncut(suggestions, query) ==
    LET queryLower == ToLowerCase(query)
        StartsWith(text) ==
            /\ Len(text) >= Len(queryLower)
            /\ SubSeq(text, 1, Len(queryLower)) = queryLower
        kept == SelectSeq(suggestions, LAMBDA s :
                          Includes(ToLowerCase(s.text), queryLower))
        typePriority(type) ==
            CASE type = "term" -> 3 [] type = "category" -> 2
              [] type = "tag" -> 1 [] OTHER -> 0
        keys == [i \in DOMAIN kept |->
                    (IF StartsWith(ToLowerCase(kept[i].text)) THEN 4 ELSE 0)
                    + typePriority(kept[i].type)]
        perm == SortPermDesc(keys)
    IN  [p \in DOMAIN kept |-> kept[perm[p]]]

\* a getSuggestions that does not sort the list
GetSuggestionsUnsorted(suggestions, query) ==
    LET queryLower == ToLowerCase(query)
    IN  Slice(SelectSeq(suggestions, LAMBDA s :
                        Includes(ToLowerCase(s.text), queryLower)),
              MaxSuggestions)

\* SearchManager.getSuggestions: filter, slice(0, 8), then the stable sort.
\* The comparator puts a text that starts with the query before one that
\* does not and, among equals, the higher typePriority first: the order of
\* the keys 4 * startsWith + typePriority downwards.
GetSuggestions(suggestions, query) ==
    LET queryLower == ToLowerCase(query)
        StartsWith(text) ==
            /\ Len(text) >= Len(queryLower)
            /\ SubSeq(text, 1, Len(queryLower)) = queryLower
        kept == Slice(SelectSeq(suggestions, LAMBDA s :
                                Includes(ToLowerCase(s.text), queryLower)),
                      MaxSuggestions)
        typePriority(type) ==
            CASE type = "term" -> 3 [] type = "category" -> 2
              [] type = "tag" -> 1 [] OTHER -> 0
        keys == [i \in DOMAIN kept |->
                    (IF StartsWith(ToLowerCase(kept[i].text)) THEN 4 ELSE 0)
                    + typePriority(kept[i].type)]
        perm == SortPermDesc(keys)
    IN  [p \in DOMAIN kept |-> kept[perm[p]]]


\* ---------------------------------------------------------------- history
\* the size saveSearchHistory cuts the history to
MaxHistoryLen == 50

\* an addToSearchHistory that does not take the earlier entry of the query
\* out
AddToSearchHistoryKeepingOld(history, query, resultsCount) ==
    Slice(<<[query |-> query, resultsCount |-> resultsCount]>> \o history,
          MaxHistoryLen)


\* the searchHistory that addToSearchHistory leaves (the time stamp of an
\* entry is not kept)
AddToSearchHistory(history, query, resultsCount) ==
    Slice(<<[query |-> query, resultsCount |-> resultsCount]>>
          \o SelectSeq(history, LAMBDA item : item.query # query),
          MaxHistoryLen)

\* --------------------------------------------------------------- articles
\* String.prototype.split(','): the pieces between the commas, the empty
\* ones included
SplitComma(text) ==
    LET commas == KeepAt([i \in DOMAIN text |-> i],
                         [i \in DOMAIN text |-> text[i] = ","])
        from(k) == IF k = 1 THEN 1 ELSE commas[k - 1] + 1
        to(k)   == IF k = Len(commas) + 1 THEN Len(text) ELSE commas[k] - 1
    IN  [k \in 1..(Len(commas) + 1) |-> SubSeq(text, from(k), to(k))]

\* ArticleManager.parseTags
ParseTags(tagsString) ==
    IF tagsString = <<>> THEN <<>>
    ELSE SelectSeq(
             LET parts == SplitComma(tagsString)
             IN  [i \in DOMAIN parts |-> Trim(parts[i])],
             LAMBDA tag : Len(tag) > 0)

\* ------------------------------------------------------------------ state
\* the first time the clock is read
FirstTime == 1

VARIABLES
    storedArticles,     \* localStorage, key media_portal_articles
    users,              \* localStorage, key media_portal_users
    articles,           \* articleManager.articles
    currentUser,        \* authManager.currentUser: <<>> (null) or <<user>>
    searchIndex,        \* searchManager.searchIndex
    searchSuggestions,  \* searchManager.searchSuggestions
    searchHistory,      \* searchManager.searchHistory (and its stored copy)
    returned,           \* <<>> or <<the value the last performSearch or
                        \* getSuggestions returned>>
    lastQuery,          \* the query of that call
    snapshot,           \* the articles and users the last build read
    page,               \* "loading": scripts have run; "loaded": after
                        \* DOMContentLoaded; "settled": the rebuild timer
                        \* fired; "failed": the script of search.js threw
    clock,              \* Date.now(), which also makes the generated ids
    comments,           \* commentManager.comments (and its stored copy)
    deleted,            \* the comments the last deleteComment took out
    currentQuery,       \* searchManager.currentQuery
    timer,              \* the timeout debouncedSearch has pending: <<>> or
                        \* <<[args, left]>>, left the time until it fires
    sinceInput,         \* the time since the last input event
    typed,              \* the trimmed values of the input events so far
    runs                \* the queries debouncedSearch's timeouts have run
                        \* performSearch with

vars ==
    <<storedArticles, users, articles, currentUser, searchIndex,
      searchSuggestions, searchHistory, returned, lastQuery, snapshot,
      page, clock, comments, deleted, currentQuery, timer, sinceInput,
      typed, runs>>

\* An article keeps the fields the search reads and the CRUD operations
\* decide on: id, title, lead, content, tags, category, status, authorId,
\* publishedAt (0 for null), views, likes.  A user keeps id, firstName,
\* lastName, bio, role.

\* what buildSearchIndex reads
Documents == [articles |-> articles, users |-> users]

\* the search input as the constructor leaves it: currentQuery = '', no
\* timeout pending, nothing typed
NoInput ==
    /\ currentQuery = <<>>
    /\ timer = <<>>
    /\ sinceInput = 0
    /\ typed = <<>>
    /\ runs = <<>>

\* the state SearchManager's constructor leaves on a page load: a new Map,
\* then init() -> buildSearchIndex()
Constructed(stored, usrs, user, history) ==
    /\ storedArticles = stored
    /\ users = usrs
    /\ articles = stored
    /\ currentUser = user
    /\ searchIndex = BuildIndex(<<>>, stored, usrs)
    /\ searchSuggestions = BuildSuggestions(history, stored)
    /\ searchHistory = history
    /\ returned = <<>>
    /\ lastQuery = <<>>
    /\ snapshot = [articles |-> stored, users |-> usrs]
    /\ page = "loading"
    /\ comments = <<>>
    /\ deleted = {}
    /\ NoInput

\* a rebuild that reads the articles from the storage again
RebuildTimerReadingStorage ==
    /\ page = "loaded"
    /\ page' = "settled"
    /\ searchIndex' = BuildIndex(searchIndex, storedArticles, users)
    /\ searchSuggestions' = BuildSuggestions(searchHistory, storedArticles)
    /\ snapshot' = [articles |-> storedArticles, users |-> users]
    /\ UNCHANGED <<comments, deleted, currentQuery, timer, sinceInput, typed,
                   runs, storedArticles, users, articles, currentUser,
                   searchHistory, returned, lastQuery, clock>>


\* SearchManager.buildSearchIndex, run by the timer that the
\* DOMContentLoaded handler of search.js sets
RebuildTimer ==
    /\ page = "loaded"
    /\ page' = "settled"
    /\ searchIndex' = BuildIndex(searchIndex, articles, users)
    /\ searchSuggestions' = BuildSuggestions(searchHistory, articles)
    /\ snapshot' = Documents
    /\ UNCHANGED <<comments, deleted, currentQuery, timer, sinceInput, typed,
                   runs, storedArticles, users, articles, currentUser,
                   searchHistory, returned, lastQuery, clock>>

\* a search that reads the stored documents and not the index
PerformSearchOverStored(query, addToHistory) ==
    LET result == SearchResult(BuildIndex(<<>>, storedArticles, users), query)
    IN  /\ page \in {"loaded", "settled"}
        /\ returned' = <<result>>
        /\ lastQuery' = query
        /\ searchHistory' =
              IF addToHistory /\ ~IsTooShort(query)
              THEN AddToSearchHistory(
                       AddToSearchHistory(searchHistory, query, result.total),
                       query, result.total)
              ELSE searchHistory
        /\ UNCHANGED <<comments, deleted, currentQuery, timer, sinceInput, typed,
                       runs, storedArticles, users, articles, currentUser,
                       searchIndex, searchSuggestions, snapshot, page, clock>>


\* a search whose resultMap is not emptied between two calls: the hits of
\* the last query are still in it
PerformSearchKeepingResultMap(query, addToHistory) ==
    LET result ==
            IF IsTooShort(query) THEN EmptyResult
            ELSE [SearchInIndex(searchIndex, lastQuery \o Sp \o query)
                     EXCEPT !.query = query]
    IN  /\ page \in {"loaded", "settled"}
        /\ returned' = <<result>>
        /\ lastQuery' = query
        /\ searchHistory' =
              IF addToHistory /\ ~IsTooShort(query)
              THEN AddToSearchHistory(
                       AddToSearchHistory(searchHistory, query, result.total),
                       query, result.total)
              ELSE searchHistory
        /\ UNCHANGED <<comments, deleted, currentQuery, timer, sinceInput, typed,
                       runs, storedArticles, users, articles, currentUser,
                       searchIndex, searchSuggestions, snapshot, page, clock>>


\* a search whose lookup makes an empty entry for every query word the
\* index does not have
PerformSearchSettingEntries(query, addToHistory) ==
    LET result == SearchResult(searchIndex, query)
        words == IF IsTooShort(query) THEN <<>> ELSE ExtractWords(query)
        fresh == KeepAt(words, [i \in DOMAIN words |->
                     /\ ~IndexHas(searchIndex, words[i])
                     /\ \A j \in 1..(i - 1) : words[j] # words[i]])
    IN  /\ page \in {"loaded", "settled"}
        /\ returned' = <<result>>
        /\ lastQuery' = query
        /\ searchHistory' =
              IF addToHistory /\ ~IsTooShort(query)
              THEN AddToSearchHistory(
                       AddToSearchHistory(searchHistory, query, result.total),
                       query, result.total)
              ELSE searchHistory
        /\ searchIndex' = searchIndex
              \o [i \in DOMAIN fresh |-> [word |-> fresh[i], postings |-> <<>>]]
        /\ UNCHANGED <<comments, deleted, currentQuery, timer, sinceInput, typed,
                       runs, storedArticles, users, articles, currentUser,
                       searchSuggestions, snapshot, page, clock>>


\* SearchManager.performSearch; with addToHistory it adds the query to the
\* history and calls showSearchResults, which adds it once more
PerformSearch(query, addToHistory) ==
    LET result == SearchResult(searchIndex, query)
    IN  /\ page \in {"loaded", "settled"}
        /\ returned' = <<result>>
        /\ lastQuery' = query
        /\ searchHistory' =
              IF addToHistory /\ ~IsTooShort(query)
              THEN AddToSearchHistory(
                       AddToSearchHistory(searchHistory, query, result.total),
                       query, result.total)
              ELSE searchHistory
        /\ UNCHANGED <<comments, deleted, currentQuery, timer, sinceInput, typed,
                       runs, storedArticles, users, articles, currentUser,
                       searchIndex, searchSuggestions, snapshot, page, clock>>

\* ----------------------------------------------------- article operations
\* AuthManager.isAuthenticated
IsAuthenticated == currentUser # <<>>

\* AuthManager.hasRole
HasRole(role) == IsAuthenticated /\ currentUser[1].role = role

\* ArticleManager.canEditArticle
CanEditArticle(article) ==
    /\ IsAuthenticated
    /\ \/ HasRole(ROLES.ADMIN)
       \/ HasRole(ROLES.EDITOR)
       \/ article.authorId = currentUser[1].id

\* a delete check that asks what the edit check asks
CanDeleteArticleAsEdit(article) ==
    /\ IsAuthenticated
    /\ \/ HasRole(ROLES.ADMIN)
       \/ HasRole(ROLES.EDITOR)
       \/ article.authorId = currentUser[1].id


\* ArticleManager.canDeleteArticle
CanDeleteArticle(article) ==
    /\ IsAuthenticated
    /\ \/ HasRole(ROLES.ADMIN)
       \/ /\ HasRole(ROLES.EDITOR)
          /\ \A u \in DOMAIN users :
                users[u].id = article.authorId => users[u].role # ROLES.ADMIN
       \/ /\ HasRole(ROLES.AUTHOR)
          /\ article.authorId = currentUser[1].id
          /\ article.status # ARTICLE_STATUS.PUBLISHED

\* this.articles.findIndex(article => article.id === articleId), 0 for -1
FindIndex(arts, articleId) ==
    IF \E i \in DOMAIN arts : arts[i].id = articleId
    THEN CHOOSE i \in DOMAIN arts :
            /\ arts[i].id = articleId
            /\ \A j \in 1..(i-1) : arts[j].id # articleId
    ELSE 0

\* the bounds of the model: the size of the collection, the number of
\* clock readings, the number of views or likes added to one article
MaxArticles == 2
MaxClock == 2
MaxBumps == 1

\* the object createArticle builds; articleData is the form's data, whose
\* tags are one string
NewArticle(articleData, now) ==
    [id |-> now,
     title |-> articleData.title,
     lead |-> articleData.lead,
     content |-> articleData.content,
     authorId |-> IF IsAuthenticated THEN currentUser[1].id ELSE 0,
     category |-> articleData.category,
     tags |-> ParseTags(articleData.tags),
     status |-> IF articleData.status = "" THEN ARTICLE_STATUS.DRAFT
                ELSE articleData.status,
     publishedAt |-> IF articleData.status = ARTICLE_STATUS.PUBLISHED
                     THEN now ELSE 0,
     views |-> 0,
     likes |-> 0]

\* ArticleManager.createArticle
CreateArticle(articleData) ==
    /\ page # "loading"
    /\ Len(articles) < MaxArticles
    /\ clock < MaxClock
    /\ clock' = clock + 1
    /\ articles' = <<NewArticle(articleData, clock + 1)>> \o articles
    /\ storedArticles' = articles'
    /\ UNCHANGED <<comments, deleted, currentQuery, timer, sinceInput, typed,
                   runs, users, currentUser, searchIndex, searchSuggestions,
                   searchHistory, returned, lastQuery, snapshot, page>>

\* the object updateArticle puts in place of the article
UpdatedArticle(article, updates, now) ==
    [article EXCEPT
        !.title = updates.title,
        !.lead = updates.lead,
        !.content = updates.content,
        !.category = updates.category,
        !.status = updates.status,
        !.tags = ParseTags(updates.tags),
        !.publishedAt =
            IF /\ updates.status = ARTICLE_STATUS.PUBLISHED
               /\ article.status # ARTICLE_STATUS.PUBLISHED
            THEN now ELSE @]

\* ArticleManager.updateArticle; it throws, and changes nothing, when the
\* article is not found or may not be edited
UpdateArticle(articleId, updates) ==
    LET index == FindIndex(articles, articleId)
    IN  /\ page # "loading"
        /\ index # 0
        /\ CanEditArticle(articles[index])
        /\ clock < MaxClock
        /\ clock' = clock + 1
        /\ articles' = [articles EXCEPT ![index] =
                            UpdatedArticle(@, updates, clock + 1)]
        /\ storedArticles' = articles'
        /\ UNCHANGED <<comments, deleted, currentQuery, timer, sinceInput, typed,
                       runs, users, currentUser, searchIndex, searchSuggestions,
                       searchHistory, returned, lastQuery, snapshot, page>>

\* a deleteArticle that rebuilds the search index
DeleteArticleRebuilding(articleId) ==
    LET index == FindIndex(articles, articleId)
    IN  /\ page # "loading"
        /\ index # 0
        /\ CanDeleteArticle(articles[index])
        /\ articles' = SubSeq(articles, 1, index - 1)
                       \o SubSeq(articles, index + 1, Len(articles))
        /\ storedArticles' = articles'
        /\ searchIndex' = BuildIndex(searchIndex, articles', users)
        /\ UNCHANGED <<comments, deleted, currentQuery, timer, sinceInput, typed,
                       runs, users, currentUser, searchSuggestions,
                       searchHistory, returned, lastQuery, snapshot, page,
                       clock>>

\* ArticleManager.deleteArticle; it throws, and changes nothing, when the
\* article is not found or may not be deleted
DeleteArticle(articleId) ==
    LET index == FindIndex(articles, articleId)
    IN  /\ page # "loading"
        /\ index # 0
        /\ CanDeleteArticle(articles[index])
        /\ articles' = SubSeq(articles, 1, index - 1)
                       \o SubSeq(articles, index + 1, Len(articles))
        /\ storedArticles' = articles'
        /\ UNCHANGED <<comments, deleted, currentQuery, timer, sinceInput, typed,
                       runs, users, currentUser, searchIndex, searchSuggestions,
                       searchHistory, returned, lastQuery, snapshot, page,
                       clock>>

\* the views and the likes an article of the demo data starts with
DemoViews == 152
DemoLikes == 23

\* the views and likes added to the articles from article i on, counted
\* from what an article starts with (0, or the demo data's numbers)
RECURSIVE TotalBumps(_, _)
TotalBumps(arts, i) ==
    IF i > Len(arts) THEN 0
    ELSE (IF arts[i].views >= DemoViews THEN arts[i].views - DemoViews
          ELSE arts[i].views)
         + (IF arts[i].likes >= DemoLikes THEN arts[i].likes - DemoLikes
            ELSE arts[i].likes)
         + TotalBumps(arts, i + 1)

\* ArticleManager.incrementViews
IncrementViews(articleId) ==
    LET index == FindIndex(articles, articleId)
    IN  /\ page # "loading"
        /\ index # 0
        /\ TotalBumps(articles, 1) < MaxBumps
        /\ articles' = [articles EXCEPT ![index].views = @ + 1]
        /\ storedArticles' = articles'
        /\ UNCHANGED <<comments, deleted, currentQuery, timer, sinceInput, typed,
                       runs, users, currentUser, searchIndex, searchSuggestions,
                       searchHistory, returned, lastQuery, snapshot, page,
                       clock>>

\* ArticleManager.likeArticle
LikeArticle(articleId) ==
    LET index == FindIndex(articles, articleId)
    IN  /\ page # "loading"
        /\ index # 0
        /\ TotalBumps(articles, 1) < MaxBumps
        /\ articles' = [articles EXCEPT ![index].likes = @ + 1]
        /\ storedArticles' = articles'
        /\ UNCHANGED <<comments, deleted, currentQuery, timer, sinceInput, typed,
                       runs, users, currentUser, searchIndex, searchSuggestions,
                       searchHistory, returned, lastQuery, snapshot, page,
                       clock>>

\* ------------------------------------------------------------------ users
\* the number of stored users the model lets createUser reach
MaxUsers == 4

\* AuthManager.createUser (the registration form's handler calls it)
CreateUser(userData) ==
    /\ page # "loading"
    /\ Len(users) < MaxUsers
    /\ clock < MaxClock
    /\ clock' = clock + 1
    /\ users' = Append(users,
                   [id |-> clock + 1,
                    firstName |-> Trim(userData.firstName),
                    lastName |-> Trim(userData.lastName),
                    bio |-> Trim(userData.bio),
                    role |-> userData.role,
                    isActive |-> userData.role = ROLES.AUTHOR])
    /\ UNCHANGED <<comments, deleted, currentQuery, timer, sinceInput, typed,
                   runs, storedArticles, articles, currentUser, searchIndex,
                   searchSuggestions, searchHistory, returned, lastQuery,
                   snapshot, page>>

\* AuthManager.authenticate and loginSuccess: an active stored user, found
\* by e-mail and password (neither is kept), becomes the current user
Login(userId) ==
    /\ page # "loading"
    /\ \E u \in DOMAIN users :
          /\ users[u].id = userId
          /\ users[u].isActive
          /\ currentUser' = <<users[u]>>
    /\ UNCHANGED <<comments, deleted, currentQuery, timer, sinceInput, typed,
                   runs, storedArticles, users, articles, searchIndex,
                   searchSuggestions, searchHistory, returned, lastQuery,
                   snapshot, page, clock>>

\* AuthManager.logout
Logout ==
    /\ page # "loading"
    /\ currentUser # <<>>
    /\ currentUser' = <<>>
    /\ UNCHANGED <<comments, deleted, currentQuery, timer, sinceInput, typed,
                   runs, storedArticles, users, articles, searchIndex,
                   searchSuggestions, searchHistory, returned, lastQuery,
                   snapshot, page, clock>>

\* -------------------------------------------------------------- demo data
Wmiting == <<"m","i","t","i","n","g">>
Wnovosti == <<"n","o","v","o","s","t","i">>
Wportal == <<"p","o","r","t","a","l">>
Wglavnyy == <<"G","l","a","v","n","y","y">>
Wdobro == <<"D","o","b","r","o">>
Wpozhalovat == <<"p","o","z","h","a","l","o","v","a","t">>
Wreportazhi == <<"r","e","p","o","r","t","a","z","h","i">>
Wnews == <<"n","e","w","s">>

\* DemoData.createDemoUsers; the ids admin-1, editor-1, author-1 are 101,
\* 102, 103, and a bio keeps its first and last words
DemoUsers ==
    << [id |-> 101, firstName |-> <<"A","d","m","i","n">>,
        lastName |-> <<"A","d","m","i","n","i","s","t","r","a","t","o","r">>,
        bio |-> Wglavnyy \o Sp \o <<"a","d","m","i","n">>
                \o Sp \o <<"m","e","d","i","a","-">> \o Wportal \o <<"a">>,
        role |-> ROLES.ADMIN, isActive |-> TRUE],
       [id |-> 102, firstName |-> <<"R","e","d","a","k","t","o","r">>,
        lastName |-> Wglavnyy,
        bio |-> Wglavnyy \o Sp \o <<"r","e","d","a","k","t","o","r">>
                \o Sp \o Wportal \o <<"a",",">> \o Sp \o <<"k","o","n","t","e","n","t","a">>,
        role |-> ROLES.EDITOR, isActive |-> TRUE],
       [id |-> 103, firstName |-> <<"A","v","t","o","r">>,
        lastName |-> <<"S","t","u","d","e","n","t">>,
        bio |-> <<"S","t","u","d","e","n","t",",">> \o Sp
                \o <<"p","i","s","h","u">> \o Sp \o <<"s","t","a","t","i">>
                \o Sp \o <<"i">> \o Sp \o Wreportazhi,
        role |-> ROLES.AUTHOR, isActive |-> TRUE] >>

\* DemoData.createDemoArticles; the id article-1 is 201, the lead and the
\* content keep their first sentence
DemoArticles(now) ==
    << [id |-> 201,
        title |-> Wdobro \o Sp \o Wpozhalovat \o Sp \o <<"v">> \o Sp
                  \o <<"m","e","d","i","a","-">> \o Wportal \o <<"!">>,
        lead |-> <<"E","t","o">> \o Sp \o <<"p","e","r","v","a","y","a">>
                 \o Sp \o <<"s","t","a","t","y","a",".">>,
        content |-> <<"<","p",">">> \o Wdobro \o Sp \o Wpozhalovat
                    \o <<"!","<","/","p",">","<","p",">">>
                    \o <<"Z","d","e","s">> \o Sp
                    \o <<"m","a","t","e","r","i","a","l","y",".","<","/","p",">">>,
        authorId |-> 103,
        category |-> Wnews,
        tags |-> << ToLowerCase(Wdobro) \o Sp \o Wpozhalovat, Wnovosti, Wportal >>,
        status |-> ARTICLE_STATUS.PUBLISHED,
        publishedAt |-> now,
        views |-> DemoViews,
        likes |-> DemoLikes] >>

\* --------------------------------------------------------- page life cycle
\* the DOMContentLoaded handlers: DemoData.initializeIfEmpty seeds the empty
\* storage keys, and search.js sets the timer that rebuilds the index
DOMContentLoaded ==
    /\ page = "loading"
    /\ page' = "loaded"
    /\ users' = IF users = <<>> THEN DemoUsers ELSE users
    /\ storedArticles' =
          IF storedArticles = <<>> THEN DemoArticles(clock)
          ELSE storedArticles
    /\ UNCHANGED <<comments, deleted, currentQuery, timer, sinceInput, typed,
                   runs, articles, currentUser, searchIndex, searchSuggestions,
                   searchHistory, returned, lastQuery, snapshot, clock>>

\* a page load: the scripts run again, ArticleManager's constructor reads
\* the stored articles and SearchManager's constructor builds a new index
LoadPage ==
    /\ page # "loading"
    /\ page' = "loading"
    /\ articles' = storedArticles
    /\ searchIndex' = BuildIndex(<<>>, storedArticles, users)
    /\ searchSuggestions' = BuildSuggestions(searchHistory, storedArticles)
    /\ snapshot' = [articles |-> storedArticles, users |-> users]
    /\ returned' = <<>>
    /\ lastQuery' = <<>>
    /\ currentQuery' = <<>>
    /\ timer' = <<>>
    /\ sinceInput' = 0
    /\ typed' = <<>>
    /\ runs' = <<>>
    /\ UNCHANGED <<storedArticles, users, currentUser, searchHistory, clock,
                   comments, deleted>>

\* ----------------------------------------------------------------- inputs
\* what the article form gives createArticle and updateArticle
FormMiting ==
    [title |-> <<"M","i","t","i","n","g">>,
     lead |-> <<"o">> \o Sp \o Wmiting \o <<"e">>,
     content |-> <<"<","p",">">> \o Wmiting \o <<"<","/","p",">">>,
     category |-> Wnews,
     tags |-> Wmiting \o <<",">> \o Sp \o Wnovosti,
     status |-> ARTICLE_STATUS.PUBLISHED]

FormPogoda ==
    [title |-> <<"P","o","g","o","d","a">>,
     lead |-> <<"n","a">> \o Sp \o <<"n","e","d","e","l","e">>,
     content |-> <<"<","p",">">> \o <<"p","o","g","o","d","a">> \o <<"<","/","p",">">>,
     category |-> <<"o","p","i","n","i","o","n">>,
     tags |-> <<>>,
     status |-> ARTICLE_STATUS.PUBLISHED]

ArticleForms ==
    { [f EXCEPT !.status = s] :
        f \in {FormMiting, FormPogoda},
        s \in {ARTICLE_STATUS.DRAFT, ARTICLE_STATUS.PUBLISHED} }

\* what the registration form gives createUser
UserForms ==
    { [firstName |-> Sp \o <<"I","v","a","n">>,
       lastName |-> <<"M","i","t","i","n","g">> \o Sp,
       bio |-> <<>>,
       role |-> ROLES.AUTHOR] }

\* what is typed in the search input: a tag of the demo article and of the
\* first form, and nothing
Queries == { Wnovosti, <<>> }

ArticleIds == { articles[i].id : i \in DOMAIN articles }

\* the users who log in: the demo data's administrator, editor and author
LoginIds == { 101, 102, 103 }

\* ---------------------------------------------------------- specification
\* the first load of the page, with nothing stored
Init ==
    /\ clock = FirstTime
    /\ Constructed(<<>>, <<>>, <<>>, <<>>)

\* a call of searchManager.performSearch(query)
SearchStep == \E q \in Queries : PerformSearch(q, FALSE)

CreateArticleStep == \E d \in ArticleForms : CreateArticle(d)

UpdateArticleStep ==
    \E id \in ArticleIds, d \in ArticleForms : UpdateArticle(id, d)

DeleteArticleStep == \E id \in ArticleIds : DeleteArticle(id)

IncrementViewsStep == \E id \in ArticleIds : IncrementViews(id)

LikeArticleStep == \E id \in ArticleIds : LikeArticle(id)

CreateUserStep == \E d \in UserForms : CreateUser(d)

LoginStep == \E id \in LoginIds : Login(id)

\* ------------------------------------------------- stored document sets
\* The index functions are checked over pages that load with documents
\* already stored.  An article as createArticle stores it:
StoredArticle(id, title, lead, content, tags, category, status) ==
    [id |-> id, title |-> Chars(title), lead |-> Chars(lead),
     content |-> Chars(content),
     authorId |-> 103,
     category |-> Chars(category),
     tags |-> [t \in DOMAIN tags |-> Chars(tags[t])],
     status |-> status,
     publishedAt |-> IF status = ARTICLE_STATUS.PUBLISHED THEN FirstTime ELSE 0,
     views |-> 0, likes |-> 0]

\* a user as createUser stores it
StoredUser(id, firstName, lastName, bio, role) ==
    [id |-> id, firstName |-> Chars(firstName), lastName |-> Chars(lastName),
     bio |-> Chars(bio), role |-> role, isActive |-> TRUE]

\* the number of articles of a list drawn from the pool
MaxDocs == 2

\* articles with a repeated word, a word inside a longer word, a tag of two
\* words, a tag in upper case, markup, an underscore, a draft
ArticlePool ==
    { StoredArticle(1, "Reportazh s mitinga", "", "",
                    <<"miting", "novosti">>, "news", ARTICLE_STATUS.PUBLISHED),
      StoredArticle(2, "Pogoda na nedele", "Prognoz",
                    "<p>Zavtra miting!</p>", <<>>, "", ARTICLE_STATUS.PUBLISHED),
      StoredArticle(3, "Nauka i miting", "miting, Miting",
                    "<b>mitingi</b> na_1", <<"Nauka", "miting novosti">>,
                    "opinion", ARTICLE_STATUS.PUBLISHED),
      StoredArticle(4, "Miting", "", "miting", <<"miting">>, "news",
                    ARTICLE_STATUS.DRAFT) }

\* the lists of at most MaxDocs different articles of the pool
PoolLists ==
    { list \in UNION { [1..n -> ArticlePool] : n \in 0..MaxDocs } :
        \A i, j \in DOMAIN list : i # j => list[i] # list[j] }

PoolUsers ==
    << StoredUser(11, "Ivan", "Miting", "Pishu o mitingah", ROLES.AUTHOR),
       StoredUser(12, "Anna", "Pogoda", "", ROLES.EDITOR) >>

\* article A of the contract's scenario, with its unnamed fields empty or
\* filled
ScenarioA ==
    { StoredArticle(1, "Reportazh s mitinga", "", "",
                    <<"miting", "novosti">>, "", ARTICLE_STATUS.PUBLISHED),
      StoredArticle(1, "Reportazh s mitinga", "Reportazh", "<p>Foto</p>",
                    <<"miting", "novosti">>, "reportage",
                    ARTICLE_STATUS.PUBLISHED) }

\* article B of the scenario: the word once in the body, bare, in markup or
\* capitalised
ScenarioB ==
    { StoredArticle(2, "Pogoda na nedele", f.lead, body, f.tags, f.category,
                    ARTICLE_STATUS.PUBLISHED) :
        body \in { "miting", "<p>Zavtra miting!</p>", "Miting - eto sobytie" },
        f \in { [lead |-> "", tags |-> <<>>, category |-> ""],
                [lead |-> "Prognoz", tags |-> <<"pogoda">>,
                 category |-> "news"] } }

ScenarioLists ==
    { <<a, b>> : a \in ScenarioA, b \in ScenarioB }
    \cup { <<b, a>> : a \in ScenarioA, b \in ScenarioB }

\* an article with the word as a whole token of its title and nowhere else
ExactTitleArticle ==
    StoredArticle(1, "Miting", "", "", <<>>, "", ARTICLE_STATUS.PUBLISHED)

\* an article with the word only inside a longer token: once in the body,
\* nine times in the body, or in the title, the lead and a tag
LongerTokenArticles ==
    { StoredArticle(2, "Pogoda", "", "mitingi", <<>>, "",
                    ARTICLE_STATUS.PUBLISHED),
      StoredArticle(2, "Pogoda", "",
                    "mitingi mitingi mitingi mitingi mitingi mitingi mitingi mitingi mitingi",
                    <<>>, "", ARTICLE_STATUS.PUBLISHED),
      StoredArticle(2, "Mitingi", "mitingi", "", <<"mitingi">>, "",
                    ARTICLE_STATUS.PUBLISHED) }

\* an article with the word only in its body: once, or five times
BodyOnlyArticles ==
    { StoredArticle(2, "Pogoda", "", "miting", <<>>, "",
                    ARTICLE_STATUS.PUBLISHED),
      StoredArticle(2, "Pogoda", "", "miting miting miting miting miting",
                    <<>>, "", ARTICLE_STATUS.PUBLISHED) }

\* the two articles of a ranking question, stored in either order
RankingLists ==
    { <<ExactTitleArticle, b>> : b \in LongerTokenArticles \cup BodyOnlyArticles }
    \cup { <<b, ExactTitleArticle>> :
             b \in LongerTokenArticles \cup BodyOnlyArticles }


\* the largest collection of matching articles
MaxBulkArticles == 30

\* article i of a large collection: the word in the title, in the body, in
\* a tag, or inside a longer word of the title
BulkArticle(i) ==
    CASE i % 4 = 0 -> StoredArticle(i, "Miting", "", "", <<>>, "",
                                    ARTICLE_STATUS.PUBLISHED)
      [] i % 4 = 1 -> StoredArticle(i, "Pogoda", "", "miting", <<>>, "",
                                    ARTICLE_STATUS.PUBLISHED)
      [] i % 4 = 2 -> StoredArticle(i, "Pogoda", "", "", <<"miting">>, "",
                                    ARTICLE_STATUS.PUBLISHED)
      [] OTHER     -> StoredArticle(i, "Mitingi", "", "", <<>>, "",
                                    ARTICLE_STATUS.PUBLISHED)

\* user j of a large collection: the word as the last name or inside it
BulkUser(j) ==
    StoredUser(300 + j, "Ivan",
               IF j % 2 = 1 THEN "Miting" ELSE "Mitingov", "", ROLES.AUTHOR)

\* the sizes of the large collections, around the limits of searchInIndex
BulkSizes ==
    { [articles |-> MaxArticleResults + 1, users |-> 0],
      [articles |-> MaxArticleResults, users |-> MaxAuthorResults],
      [articles |-> MaxArticleResults - 1, users |-> MaxAuthorResults + 1],
      [articles |-> MaxBulkArticles, users |-> MaxAuthorResults + 2] }

\* the stored documents a page can load with: lists of the pool, of the
\* scenario and of the ranking questions, one article of every status, and
\* the large collections
DocumentSets ==
    { [articles |-> list, users |-> usrs] :
        list \in PoolLists, usrs \in {<<>>, PoolUsers} }
    \cup { [articles |-> list, users |-> usrs] :
             list \in ScenarioLists, usrs \in {<<>>, DemoUsers} }
    \cup { [articles |-> list, users |-> <<>>] : list \in RankingLists }
    \cup { [articles |->
               << StoredArticle(1, "Miting", "", "", <<>>, "",
                                ARTICLE_STATUS.DRAFT),
                  StoredArticle(2, "Miting", "", "", <<>>, "",
                                ARTICLE_STATUS.PENDING),
                  StoredArticle(3, "Miting", "", "", <<>>, "",
                                ARTICLE_STATUS.PUBLISHED),
                  StoredArticle(4, "Miting", "", "", <<>>, "",
                                ARTICLE_STATUS.ARCHIVED) >>,
            users |-> <<>>] }
    \cup { [articles |-> [i \in 1..n.articles |-> BulkArticle(i)],
            users |-> [j \in 1..n.users |-> BulkUser(j)]] : n \in BulkSizes }

\* what is typed in the search input of such a page
IndexQueries ==
    { Chars("miting"), Chars("Miting novosti"), Chars("miting miting"),
      Chars("na"), Chars("xyz"), Chars(""), Chars("a"), Chars("a b"),
      Chars("!!") }

\* a page load with some documents stored
InitIndex ==
    /\ clock = FirstTime
    /\ \E docs \in DocumentSets :
          Constructed(docs.articles, docs.users, <<>>, <<>>)

IndexSearchStep == \E q \in IndexQueries : PerformSearch(q, FALSE)

NextIndex ==
    \/ DOMContentLoaded
    \/ RebuildTimer
    \/ IndexSearchStep

SpecIndex == InitIndex /\ [][NextIndex]_vars

\* ------------------------------------------------- searches with a history
\* the click handler of the search button: the trimmed text of the input,
\* when it is not empty, is searched and recorded
SubmitSearch(text) ==
    LET query == Trim(text)
    IN  /\ query # <<>>
        /\ PerformSearch(query, TRUE)

\* a search history left in the storage by earlier visits: none, two
\* queries, or as many as the history holds
StoredHistories ==
    { <<>>,
      << [query |-> Chars("nauka"), resultsCount |-> 0],
         [query |-> Chars("pogoda zavtra"), resultsCount |-> 3] >>,
      [i \in 1..MaxHistoryLen |->
          [query |-> <<"q">> \o Chars(ToString(i)), resultsCount |-> 0]] }

\* the stored documents of these pages: two articles of the pool and its
\* users
HistoryDocumentSets ==
    { [articles |-> list, users |-> PoolUsers] :
        list \in { l \in PoolLists : Len(l) = MaxDocs /\ l[1].id < l[2].id } }

\* what is typed in the search input before the button is clicked
HistoryTexts ==
    { Chars("miting"), Chars(" Miting novosti "), Chars("a"), Chars("  ") }

InitHistory ==
    /\ clock = FirstTime
    /\ \E docs \in HistoryDocumentSets, history \in StoredHistories :
          Constructed(docs.articles, docs.users, <<>>, history)

SubmitSearchStep == \E text \in HistoryTexts : SubmitSearch(text)

\* SearchManager.clearSearchHistory
ClearSearchHistory ==
    /\ page \in {"loaded", "settled"}
    /\ searchHistory' = <<>>
    /\ UNCHANGED <<comments, deleted, currentQuery, timer, sinceInput, typed,
                   runs, storedArticles, users, articles, currentUser, searchIndex,
                   searchSuggestions, returned, lastQuery, snapshot, page,
                   clock>>

NextHistory ==
    \/ DOMContentLoaded
    \/ RebuildTimer
    \/ SubmitSearchStep
    \/ ClearSearchHistory
    \/ IndexSearchStep

SpecHistory == InitHistory /\ [][NextHistory]_vars


\* ------------------------------------------ documents with missing fields
\* A stored document that lacks a field is a record without it.

\* the values indexArticle works with when a field is undefined: join(' ')
\* writes an undefined lead or category as the empty string, and
\* publishedAt is only copied
FilledArticle(article) ==
    [id |-> article.id,
     title |-> article.title,
     lead |-> IF "lead" \in DOMAIN article THEN article.lead ELSE <<>>,
     content |-> IF "content" \in DOMAIN article THEN article.content ELSE <<>>,
     authorId |-> article.authorId,
     category |-> IF "category" \in DOMAIN article THEN article.category
                  ELSE <<>>,
     tags |-> IF "tags" \in DOMAIN article THEN article.tags ELSE <<>>,
     status |-> article.status,
     publishedAt |-> IF "publishedAt" \in DOMAIN article
                     THEN article.publishedAt ELSE 0,
     views |-> article.views, likes |-> article.likes]

\* the values indexUser works with: user.bio || ''
FilledUser(user) ==
    [id |-> user.id, firstName |-> user.firstName, lastName |-> user.lastName,
     bio |-> IF "bio" \in DOMAIN user THEN user.bio ELSE <<>>,
     role |-> user.role, isActive |-> user.isActive]

\* indexArticle throws a TypeError: article.content.replace and
\* ...article.tags on undefined while the text is put together,
\* article.lead.toLowerCase() in calculateWordRelevance for the first word
IndexArticleRaises(article) ==
    \/ "content" \notin DOMAIN article
    \/ "tags" \notin DOMAIN article
    \/ /\ "lead" \notin DOMAIN article
       /\ ExtractWords(ArticleSearchableText(FilledArticle(article))) # <<>>

\* buildSearchIndex over documents that can lack fields: whether it threw,
\* and the Map it leaves.  The articles before the first one that throws
\* are indexed; when the throw comes from calculateWordRelevance, the entry
\* of the first word has been set already; no later article and no user is
\* indexed.
BuildIndexOrRaise(index, arts, usrs) ==
    LET published == SelectSeq(arts, IsIndexed)
        bad == { i \in DOMAIN published : IndexArticleRaises(published[i]) }
    IN  IF bad = {}
        THEN [raised |-> FALSE,
              index |-> BuildIndex(index,
                            [i \in DOMAIN arts |-> FilledArticle(arts[i])],
                            [i \in DOMAIN usrs |-> FilledUser(usrs[i])])]
        ELSE LET first == CHOOSE i \in bad : \A j \in bad : i <= j
                 before == IndexArticles(ClearIndex(index),
                               [i \in 1..(first - 1) |->
                                   FilledArticle(published[i])])
                 article == published[first]
                 words == ExtractWords(
                              ArticleSearchableText(FilledArticle(article)))
             IN  [raised |-> TRUE,
                  index |->
                      IF /\ "content" \in DOMAIN article
                         /\ "tags" \in DOMAIN article
                         /\ ~IndexHas(before, words[1])
                      THEN Append(before,
                                  [word |-> words[1], postings |-> <<>>])
                      ELSE before]

\* the state the script of search.js leaves on a page load: when the
\* constructor throws, the page has no search manager
ConstructedOrRaised(stored, usrs) ==
    LET built == BuildIndexOrRaise(<<>>, stored, usrs)
    IN  /\ storedArticles = stored
        /\ users = usrs
        /\ articles = stored
        /\ currentUser = <<>>
        /\ searchIndex = built.index
        /\ searchSuggestions =
              IF built.raised THEN <<>> ELSE BuildSuggestions(<<>>, stored)
        /\ searchHistory = <<>>
        /\ returned = <<>>
        /\ lastQuery = <<>>
        /\ snapshot = [articles |-> stored, users |-> usrs]
        /\ page = IF built.raised THEN "failed" ELSE "loading"
        /\ comments = <<>>
        /\ deleted = {}
        /\ NoInput

\* the rebuild timer over such documents
RebuildTimerOrRaise ==
    LET built == BuildIndexOrRaise(searchIndex, articles, users)
    IN  /\ page = "loaded"
        /\ page' = "settled"
        /\ searchIndex' = built.index
        /\ searchSuggestions' =
              IF built.raised THEN searchSuggestions
              ELSE BuildSuggestions(searchHistory, articles)
        /\ snapshot' = Documents
        /\ UNCHANGED <<comments, deleted, currentQuery, timer, sinceInput, typed,
                       runs, storedArticles, users, articles, currentUser,
                       searchHistory, returned, lastQuery, clock>>

\* stored documents of which one article lacks one field or none, before or
\* after a complete article, with a user with or without a bio
MissingDocumentSets ==
    LET full == StoredArticle(1, "Miting", "Segodnya", "<p>miting</p>",
                              <<"novosti">>, "news", ARTICLE_STATUS.PUBLISHED)
        later == StoredArticle(2, "Pogoda", "Prognoz", "", <<>>, "",
                               ARTICLE_STATUS.PUBLISHED)
        user == StoredUser(11, "Ivan", "Miting", "Pishu", ROLES.AUTHOR)
        Without(doc, field) == [f \in DOMAIN doc \ {field} |-> doc[f]]
        lacking == { Without(full, f) :
                       f \in {"lead", "content", "tags", "category",
                              "publishedAt", "none"} }
    IN  { [articles |-> list, users |-> <<u>>] :
            list \in UNION { { <<a, later>>, <<later, a>> } : a \in lacking },
            u \in { user, Without(user, "bio") } }

InitMissing ==
    /\ clock = FirstTime
    /\ \E docs \in MissingDocumentSets :
          ConstructedOrRaised(docs.articles, docs.users)

NextMissing ==
    \/ DOMContentLoaded
    \/ RebuildTimerOrRaise
    \/ IndexSearchStep

SpecMissing == InitMissing /\ [][NextMissing]_vars


\* ------------------------------------------------------ pages that suggest
\* a call of searchManager.getSuggestions(query)
Suggest(query) ==
    /\ page \in {"loaded", "settled"}
    /\ returned' = <<GetSuggestions(searchSuggestions, query)>>
    /\ lastQuery' = query
    /\ UNCHANGED <<comments, deleted, currentQuery, timer, sinceInput, typed,
                   runs, storedArticles, users, articles, currentUser, searchIndex,
                   searchSuggestions, searchHistory, snapshot, page, clock>>

\* the stored documents and history of these pages.  The articles: five
\* with the tag "nauka", alone or after five other tags that every article
\* carries too, or two articles of the pool.  The history: none, one query,
\* or three queries whose nine words all have "na" in them.
SuggestDocumentSets ==
    LET Tagged(i, tags) ==
            StoredArticle(i, "Pogoda", "", "", tags, "",
                          ARTICLE_STATUS.PUBLISHED)
        lists ==
            { [i \in 1..5 |-> Tagged(i, IF i = 5 THEN <<"Nauka", "sport">>
                                        ELSE <<"nauka">>)],
              [i \in 1..5 |-> Tagged(i, <<"sport", "kino", "muzyka", "teatr",
                                          "tancy", "nauka">>)],
              << CHOOSE a \in ArticlePool : a.id = 1,
                 CHOOSE a \in ArticlePool : a.id = 3 >> }
        Entry(query) == [query |-> Chars(query), resultsCount |-> 0]
        histories ==
            { <<>>,
              << Entry("Strana, nash sport") >>,
              << Entry("narod nalog nachalo"), Entry("strana kanal znanie"),
                 Entry("nash nado okna") >> }
    IN  { [articles |-> list, users |-> PoolUsers, history |-> history] :
            list \in lists, history \in histories }

\* what getSuggestions is called with
SuggestQueries ==
    { Chars("na"), Chars("NA"), Chars("o"), Chars("no"), Chars("nauka"),
      Chars(""), Chars("xyz") }

InitSuggest ==
    /\ clock = FirstTime
    /\ \E docs \in SuggestDocumentSets :
          Constructed(docs.articles, docs.users, <<>>, docs.history)

NextSuggest ==
    \/ DOMContentLoaded
    \/ RebuildTimer
    \/ \E q \in SuggestQueries : Suggest(q)

SpecSuggest == InitSuggest /\ [][NextSuggest]_vars


\* ------------------------------------------------------- advanced search
\* SearchManager.advancedSearch over the live articles and the index.  The
\* filters: query and category are strings, author is an id (0 for ''),
\* dateFrom and dateTo are <<>> for '' or <<the Date the string makes>>
\* ([valid |-> FALSE] is an Invalid Date, which compares false), tags is a
\* list of strings.  ArticleDate is new Date(article.publishedAt ||
\* article.createdAt) as a time.  The label buildSearchQueryString makes is
\* left out.
AdvancedSearch(index, arts, filters) ==
    LET ArticleDate(article) ==
            IF article.publishedAt # 0 THEN article.publishedAt
            ELSE article.createdAt
        published  == SelectSeq(arts, LAMBDA a :
                          a.status = ARTICLE_STATUS.PUBLISHED)
        byCategory == IF filters.category # <<>>
                      THEN SelectSeq(published, LAMBDA a :
                               a.category = filters.category)
                      ELSE published
        byAuthor   == IF filters.author # 0
                      THEN SelectSeq(byCategory, LAMBDA a :
                               a.authorId = filters.author)
                      ELSE byCategory
        byFrom     == IF filters.dateFrom # <<>>
                      THEN SelectSeq(byAuthor, LAMBDA a :
                               /\ filters.dateFrom[1].valid
                               /\ ArticleDate(a) >= filters.dateFrom[1].time)
                      ELSE byAuthor
        byTo       == IF filters.dateTo # <<>>
                      THEN SelectSeq(byFrom, LAMBDA a :
                               /\ filters.dateTo[1].valid
                               /\ ArticleDate(a) <= filters.dateTo[1].time)
                      ELSE byFrom
        byTags     == IF Len(filters.tags) > 0
                      THEN SelectSeq(byTo, LAMBDA a :
                               \E f \in DOMAIN filters.tags :
                               \E t \in DOMAIN a.tags :
                                   Includes(ToLowerCase(a.tags[t]),
                                            ToLowerCase(filters.tags[f])))
                      ELSE byTo
        withText   == filters.query # <<>> /\ Len(filters.query) >= MinQueryLen
        textResults == SearchInIndex(index, filters.query)
        relevance(id) ==
            IF \E i \in DOMAIN textResults.articles :
                   textResults.articles[i].doc.id = id
            THEN textResults.articles[
                     CHOOSE i \in DOMAIN textResults.articles :
                         textResults.articles[i].doc.id = id].score2
            ELSE 0
        inText     == SelectSeq(byTags, LAMBDA a :
                          \E i \in DOMAIN textResults.articles :
                              textResults.articles[i].doc.id = a.id)
        found      == IF withText THEN inText ELSE byTags
        keys       == IF withText
                      THEN [i \in DOMAIN found |-> relevance(found[i].id)]
                      ELSE [i \in DOMAIN found |-> ArticleDate(found[i])]
        perm       == SortPermDesc(keys \o <<>>) \o <<>>
        sorted     == [p \in DOMAIN found |-> found[perm[p]]]
    IN  [articles |-> [p \in DOMAIN sorted |->
                          [type |-> "article",
                           id |-> sorted[p].id,
                           title |-> sorted[p].title,
                           lead |-> sorted[p].lead,
                           category |-> sorted[p].category,
                           publishedAt |-> ArticleDate(sorted[p])]],
         authors  |-> <<>>,
         total    |-> Len(found)]

\* a call of advancedSearch that does not look at the category
AdvancedSearchCallAnyCategory(filters) ==
    /\ page \in {"loaded", "settled"}
    /\ returned' = <<AdvancedSearch(searchIndex, articles,
                                    [filters EXCEPT !.category = <<>>])>>
    /\ lastQuery' = filters
    /\ UNCHANGED <<comments, deleted, currentQuery, timer, sinceInput, typed,
                   runs, storedArticles, users, articles, currentUser, searchIndex,
                   searchSuggestions, searchHistory, snapshot, page, clock>>


\* a call of advancedSearch with some filters
AdvancedSearchCall(filters) ==
    /\ page \in {"loaded", "settled"}
    /\ returned' = <<AdvancedSearch(searchIndex, articles, filters)>>
    /\ lastQuery' = filters
    /\ UNCHANGED <<comments, deleted, currentQuery, timer, sinceInput, typed,
                   runs, storedArticles, users, articles, currentUser, searchIndex,
                   searchSuggestions, searchHistory, snapshot, page, clock>>

\* the stored articles of a page whose advanced search is used: twenty with
\* the word in the title (some also in a tag), two with the word in the
\* body only, a draft, and an article without publishedAt
AdvancedDocuments ==
    [i \in 1..24 |->
        [id |-> i,
         title |-> IF i <= 20 \/ i = 23 THEN Chars("Miting")
                   ELSE Chars("Pogoda"),
         lead |-> <<>>,
         content |-> IF i \in {21, 22} THEN Chars("miting") ELSE <<>>,
         authorId |-> IF i % 2 = 0 THEN 102 ELSE 103,
         category |-> IF i % 3 = 0 THEN Chars("news") ELSE Chars("opinion"),
         tags |-> IF i % 5 = 0 THEN <<Chars("Miting"), Chars("Sport")>>
                  ELSE IF i % 2 = 0 THEN <<Chars("Sport")>>
                  ELSE IF i = 21 THEN <<Chars("Nauka")>> ELSE <<>>,
         status |-> IF i = 23 THEN ARTICLE_STATUS.DRAFT
                    ELSE ARTICLE_STATUS.PUBLISHED,
         publishedAt |-> IF i \in {23, 24} THEN 0 ELSE FirstTime + (i % 3),
         createdAt |-> FirstTime,
         views |-> 0, likes |-> 0]]

\* the filters of the advanced search form: a text and a category; a text,
\* an author and tags; a text and dates
AdvancedFilters ==
    LET none == [query |-> <<>>, category |-> <<>>, author |-> 0,
                 dateFrom |-> <<>>, dateTo |-> <<>>, tags |-> <<>>]
    IN  { [none EXCEPT !.query = q, !.category = c] :
            q \in {<<>>, Chars("miting"), Chars("m"), Chars("pogoda")},
            c \in {<<>>, Chars("news"), Chars("opinion")} }
        \cup { [none EXCEPT !.query = q, !.author = a, !.tags = t] :
                 q \in {<<>>, Chars("miting")},
                 a \in {0, 102},
                 t \in {<<>>, <<Chars("sport")>>,
                        <<Chars("xyz"), Chars("nau")>>} }
        \cup { [none EXCEPT !.query = q, !.dateFrom = f, !.dateTo = t] :
                 q \in {<<>>, Chars("miting")},
                 f \in {<<>>, <<[valid |-> TRUE, time |-> FirstTime + 1]>>,
                        <<[valid |-> FALSE, time |-> 0]>>},
                 t \in {<<>>, <<[valid |-> TRUE, time |-> FirstTime + 1]>>} }

\* a page load with these articles stored and the administrator logged in
InitAdvanced ==
    /\ clock = FirstTime
    /\ Constructed(AdvancedDocuments, DemoUsers, <<DemoUsers[1]>>, <<>>)

\* the page loads; the index is rebuilt; the first article is deleted;
\* advanced searches are made
NextAdvanced ==
    \/ DOMContentLoaded
    \/ RebuildTimer
    \/ DeleteArticle(1)
    \/ \E filters \in AdvancedFilters : AdvancedSearchCall(filters)

SpecAdvanced == InitAdvanced /\ [][NextAdvanced]_vars


\* --------------------------------------------------- the debounced search
\* the delay of debouncedSearch
DebounceDelay == 300

\* the number of input events of a page
MaxKeystrokes == 3

\* the function Performance.debounce returns, called with args while
\* pending is the timeout it has set: clearTimeout, then setTimeout
Debounce(pending, args, delay) == <<[args |-> args, left |-> delay]>>

\* the input handler of the search field; the events of a page follow each
\* other by less than the delay.  showSuggestions calls getSuggestions.
InputEvent(text) ==
    LET query == Trim(text)
    IN  /\ page \in {"loaded", "settled"}
        /\ Len(typed) < MaxKeystrokes
        /\ IF typed = <<>> THEN TRUE ELSE sinceInput < DebounceDelay
        /\ currentQuery' = query
        /\ IF Len(query) >= 2
           THEN /\ timer' = Debounce(timer, query, DebounceDelay)
                /\ returned' = <<GetSuggestions(searchSuggestions, query)>>
                /\ lastQuery' = query
           ELSE UNCHANGED <<timer, returned, lastQuery>>
        /\ sinceInput' = 0
        /\ typed' = Append(typed, query)
        /\ UNCHANGED <<storedArticles, users, articles, currentUser,
                       searchIndex, searchSuggestions, searchHistory,
                       snapshot, page, clock, comments, deleted, runs>>

\* time passes, a third of the delay at a time, up to the moment the
\* pending timeout fires
Tick ==
    LET dt == DebounceDelay \div 3
    IN  /\ typed # <<>>
        /\ sinceInput < 2 * DebounceDelay
        /\ IF timer = <<>> THEN TRUE ELSE timer[1].left >= dt
        /\ sinceInput' = sinceInput + dt
        /\ timer' = IF timer = <<>> THEN <<>>
                    ELSE <<[timer[1] EXCEPT !.left = @ - dt]>>
        /\ UNCHANGED <<storedArticles, users, articles, currentUser,
                       searchIndex, searchSuggestions, searchHistory,
                       returned, lastQuery, snapshot, page, clock, comments, deleted,
                       currentQuery, typed, runs>>

\* the timeout of debouncedSearch fires: func.apply(this, args), which is
\* performSearch(query) without addToHistory
DebouncedSearchFires ==
    /\ timer # <<>>
    /\ timer[1].left = 0
    /\ timer' = <<>>
    /\ returned' = <<SearchResult(searchIndex, timer[1].args)>>
    /\ lastQuery' = timer[1].args
    /\ runs' = Append(runs, timer[1].args)
    /\ UNCHANGED <<storedArticles, users, articles, currentUser,
                   searchIndex, searchSuggestions, searchHistory, snapshot,
                   page, clock, comments, deleted, currentQuery, sinceInput, typed>>

\* what the search field holds after an input event
InputTexts == { Chars("mi"), Chars(" mit "), Chars("m"), Chars("") }

\* a page load with one article stored
InitDebounce ==
    /\ clock = FirstTime
    /\ Constructed(<<StoredArticle(1, "Miting", "", "", <<>>, "news",
                                   ARTICLE_STATUS.PUBLISHED)>>,
                   <<>>, <<>>, <<>>)

\* the page loads; the index is rebuilt; the field changes; time passes;
\* the timeout fires
NextDebounce ==
    \/ DOMContentLoaded
    \/ RebuildTimer
    \/ \E text \in InputTexts : InputEvent(text)
    \/ Tick
    \/ DebouncedSearchFires

SpecDebounce == InitDebounce /\ [][NextDebounce]_vars


\* ----------------------------------------------------------- the comments
\* A comment keeps id, parentId (0 for null) and authorId (0 for null).
\* the ids the clock makes for the comments of a page
MaxCommentClock == 5

\* CommentManager.createComment with valid data: a comment, or a reply to
\* the comment parentId, by the current user or a guest
CreateComment(parentId) ==
    /\ page # "loading"
    /\ clock < MaxCommentClock
    /\ clock' = clock + 1
    /\ comments' = <<[id |-> clock + 1,
                      parentId |-> parentId,
                      authorId |-> IF IsAuthenticated THEN currentUser[1].id
                                   ELSE 0]>> \o comments
    /\ UNCHANGED <<storedArticles, users, articles, currentUser, searchIndex,
                   searchSuggestions, searchHistory, returned, lastQuery,
                   snapshot, page, deleted, currentQuery, timer, sinceInput,
                   typed, runs>>

\* CommentManager.canDeleteComment
CanDeleteComment(comment) ==
    IF ~IsAuthenticated THEN FALSE
    ELSE IF HasRole(ROLES.ADMIN) THEN TRUE
    ELSE IF HasRole(ROLES.EDITOR)
         THEN IF comment.authorId # 0
              THEN \A u \in DOMAIN users :
                       users[u].id = comment.authorId
                       => users[u].role # ROLES.ADMIN
              ELSE TRUE
    ELSE comment.authorId = currentUser[1].id

\* a deleteCommentWithReplies that takes out the comment only
DeleteCommentAlone(cs, commentId) ==
    SelectSeq(cs, LAMBDA c : c.id # commentId)

\* CommentManager.deleteCommentWithReplies: the comments left.
\* DeleteReplies is its forEach over the replies found at the start, from
\* reply i on.
RECURSIVE DeleteCommentWithReplies(_, _)
RECURSIVE DeleteReplies(_, _, _)
DeleteReplies(cs, replies, i) ==
    IF i > Len(replies) THEN cs
    ELSE DeleteReplies(DeleteCommentWithReplies(cs, replies[i].id),
                       replies, i + 1)

DeleteCommentWithReplies(cs, commentId) ==
    LET replies == SelectSeq(cs, LAMBDA c : c.parentId = commentId)
        left    == DeleteReplies(cs, replies, 1)
        index   == IF \E i \in DOMAIN left : left[i].id = commentId
                   THEN CHOOSE i \in DOMAIN left :
                            /\ left[i].id = commentId
                            /\ \A j \in 1..(i - 1) : left[j].id # commentId
                   ELSE 0
    IN  IF index # 0
        THEN SubSeq(left, 1, index - 1) \o SubSeq(left, index + 1, Len(left))
        ELSE left

\* CommentManager.deleteComment, when it does not throw
DeleteComment(commentId) ==
    /\ page # "loading"
    /\ \E i \in DOMAIN comments :
          /\ comments[i].id = commentId
          /\ \A j \in 1..(i - 1) : comments[j].id # commentId
          /\ CanDeleteComment(comments[i])
    /\ comments' = DeleteCommentWithReplies(comments, commentId)
    /\ deleted' = Range(comments) \ Range(comments')
    /\ UNCHANGED <<storedArticles, users, articles, currentUser, searchIndex,
                   searchSuggestions, searchHistory, returned, lastQuery,
                   snapshot, page, clock, currentQuery, timer, sinceInput,
                   typed, runs>>

\* a page load with the demo users stored and no comment
InitComments ==
    /\ clock = FirstTime
    /\ Constructed(<<>>, DemoUsers, <<>>, <<>>)

\* the page loads; users log in; comments and replies to the comments of
\* the page are written; comments are deleted
NextComments ==
    \/ DOMContentLoaded
    \/ LoginStep
    \/ \E parentId \in { comments[i].id : i \in DOMAIN comments } \cup {0} :
          CreateComment(parentId)
    \/ \E commentId \in { comments[i].id : i \in DOMAIN comments } :
          DeleteComment(commentId)

SpecComments == InitComments /\ [][NextComments]_vars


Next ==
    \/ DOMContentLoaded
    \/ RebuildTimer
    \/ LoadPage
    \/ SearchStep
    \/ CreateArticleStep
    \/ UpdateArticleStep
    \/ DeleteArticleStep
    \/ IncrementViewsStep
    \/ LikeArticleStep
    \/ CreateUserStep
    \/ LoginStep
    \/ Logout

Spec == Init /\ [][Next]_vars

\* ----------------------------------------------------------------- claims
\* a step in which performSearch(q) returns
Searched(q) == lastQuery' = q /\ PerformSearch(q, FALSE)

\* the number of times word w stands in words
CountOf(words, w) == Cardinality({ i \in DOMAIN words : words[i] = w })

\* the sum of the first n numbers of f
RECURSIVE SumTo(_, _)
SumTo(f, n) == IF n = 0 THEN 0 ELSE SumTo(f, n - 1) + f[n]

\* the documents a build over arts and usrs indexes, each with its key and
\* the words of its text
IndexedDocs(arts, usrs) ==
    LET published == SelectSeq(arts, IsIndexed)
    IN  [i \in DOMAIN published |->
            [key |-> <<"article", published[i].id>>,
             doc |-> published[i],
             words |-> ExtractWords(ArticleSearchableText(published[i]))]]
        \o [i \in DOMAIN usrs |->
               [key |-> <<"author", usrs[i].id>>,
                doc |-> usrs[i],
                words |-> ExtractWords(UserSearchableText(usrs[i]))]]

\* the keys of the documents that have a posting in the index
IndexKeys(index) ==
    UNION { { ResultKey(index[e].postings[p]) :
                p \in DOMAIN index[e].postings } : e \in DOMAIN index }

\* the keys of a result's documents
ReturnedKeys(result) ==
    { ResultKey(result.articles[i].doc) : i \in DOMAIN result.articles }
    \cup { ResultKey(result.authors[i].doc) : i \in DOMAIN result.authors }

\* the titles of a result's articles, in order
ArticleTitles(result) ==
    [i \in DOMAIN result.articles |-> result.articles[i].doc.title]

\* ---- C1
IsArticleA(a) ==
    /\ a.title = Chars("Reportazh s mitinga")
    /\ a.tags = <<Wmiting, Wnovosti>>
    /\ a.status = ARTICLE_STATUS.PUBLISHED

IsArticleB(b) ==
    /\ b.title = Chars("Pogoda na nedele")
    /\ CountOf(ExtractWords(StripTags(b.content)), Wmiting) = 1
    /\ b.status = ARTICLE_STATUS.PUBLISHED

\* the collection is the two articles of the scenario, in either order
IsScenario(arts) ==
    /\ Len(arts) = 2
    /\ \E a, b \in 1..2 : a # b /\ IsArticleA(arts[a]) /\ IsArticleB(arts[b])

\* no word of a user's text contains w
NoUserMentions(usrs, w) ==
    \A u \in DOMAIN usrs :
        \A t \in Range(ExtractWords(UserSearchableText(usrs[u]))) :
            ~Includes(t, w)

\* C1: after a build over exactly the two published articles A (title
\* "Reportazh s mitinga", tags miting and novosti) and B (title "Pogoda na
\* nedele", the word miting once in its body), the query "miting" returns
\* the articles in the order A, B, both present, with total 2.
C1_ScenarioOrder ==
    [][ ( /\ Searched(Wmiting)
          /\ IsScenario(snapshot.articles)
          /\ NoUserMentions(snapshot.users, Wmiting) )
        => /\ ArticleTitles(returned'[1]) =
                 <<Chars("Reportazh s mitinga"), Chars("Pogoda na nedele")>>
           /\ returned'[1].authors = <<>>
           /\ returned'[1].total = 2 ]_vars

\* the query was answered over the scenario with B stored before A
C1_Witness ==
    /\ returned # <<>>
    /\ lastQuery = Wmiting
    /\ IsScenario(snapshot.articles)
    /\ IsArticleB(snapshot.articles[1])
    /\ returned[1].total = 2
    /\ returned[1].articles[1].doc.id = snapshot.articles[2].id

\* ---- C2
\* twice what one posting of weight relevance under entryWord adds to its
\* document's score for one query word
Contribution2(entryWord, queryWord, relevance) ==
    IF entryWord = queryWord THEN 2 * relevance
    ELSE IF Includes(entryWord, queryWord) THEN relevance
    ELSE 0

\* twice the sum of the claim for the document of a key
ExpectedScore2(index, words, key) ==
    SumTo([w \in DOMAIN words |->
            SumTo([e \in DOMAIN index |->
                    SumTo([p \in DOMAIN index[e].postings |->
                            IF ResultKey(index[e].postings[p]) = key
                            THEN Contribution2(index[e].word, words[w],
                                     index[e].postings[p].relevance)
                            ELSE 0],
                          Len(index[e].postings))],
                  Len(index))],
          Len(words))

\* every returned document has the score of the claim
ScoresAreSums(index, query, result) ==
    LET words == ExtractWords(query)
    IN  /\ \A i \in DOMAIN result.articles :
              result.articles[i].score2 =
                  ExpectedScore2(index, words, ResultKey(result.articles[i].doc))
        /\ \A i \in DOMAIN result.authors :
              result.authors[i].score2 =
                  ExpectedScore2(index, words, ResultKey(result.authors[i].doc))

\* the keys of the documents whose sum is greater than zero
PositiveKeys(index, query) ==
    { key \in IndexKeys(index) :
        ExpectedScore2(index, ExtractWords(query), key) > 0 }

\* C2 as stated: the score of each returned document is the sum, over the
\* query tokens, of the full weight of its postings under that token and
\* half the weight of its postings under any other index token containing
\* it, and a document is returned if and only if this sum is above zero.
C2_ReturnedIffPositive ==
    [][ \A q \in IndexQueries :
          Searched(q)
          => /\ ScoresAreSums(searchIndex, q, returned'[1])
             /\ ReturnedKeys(returned'[1]) = PositiveKeys(searchIndex, q) ]_vars

\* C2 amended: the score of each returned document is that sum; only
\* documents whose sum is above zero are returned, total counts them all,
\* and all of them are returned unless more than 20 of them are articles
\* or more than 10 are authors (then the lists are cut, see C10).
C2_ScoreIsSum ==
    [][ \A q \in IndexQueries :
          Searched(q)
          => LET positive == PositiveKeys(searchIndex, q)
                 arts == { k \in positive : k[1] = "article" }
                 auts == { k \in positive : k[1] = "author" }
             IN  /\ ScoresAreSums(searchIndex, q, returned'[1])
                 /\ ReturnedKeys(returned'[1]) \subseteq positive
                 /\ returned'[1].total = Cardinality(positive)
                 /\ Cardinality(arts) <= MaxArticleResults
                       => arts \subseteq ReturnedKeys(returned'[1])
                 /\ Cardinality(auts) <= MaxAuthorResults
                       => auts \subseteq ReturnedKeys(returned'[1]) ]_vars

\* a returned article's score adds up exact and partial matches of two
\* query words: it is above what one posting can give
C2_Witness ==
    /\ returned # <<>>
    /\ lastQuery = Chars("Miting novosti")
    /\ \E i \in DOMAIN returned[1].articles :
          returned[1].articles[i].score2 >
              2 * (BaseRelevance + TitleBonus + LeadBonus + TagBonus)

\* ---- C3
\* C3: after a build, for every token and every document the entry of the
\* token holds exactly one posting of the document when the token occurs
\* in the document's text, however many times it occurs there.
C3_OnePostingPerToken ==
    LET docs == IndexedDocs(snapshot.articles, snapshot.users)
    IN  \A d \in DOMAIN docs :
            \A w \in Range(docs[d].words) :
                /\ IndexHas(searchIndex, w)
                /\ CountOf([p \in DOMAIN IndexGet(searchIndex, w) |->
                               ResultKey(IndexGet(searchIndex, w)[p])],
                           docs[d].key) = 1

\* ---- C4
\* the article of the last build's snapshot that a posting was made from
SnapshotArticle(posting) ==
    snapshot.articles[CHOOSE i \in DOMAIN snapshot.articles :
                          snapshot.articles[i].id = posting.id]

\* the weight of the claim, with the tag bonus decided by TagMatches
ClaimedWeight(word, article, TagMatches(_, _)) ==
    1 + (IF Includes(ToLowerCase(article.title), word) THEN 3 ELSE 0)
      + (IF Includes(ToLowerCase(article.lead), word) THEN 2 ELSE 0)
      + (IF \E t \in DOMAIN article.tags : TagMatches(article.tags[t], word)
         THEN 2 ELSE 0)

\* every article posting of the index has the claimed weight
ArticleWeightsAre(TagMatches(_, _)) ==
    \A e \in DOMAIN searchIndex :
        \A p \in DOMAIN searchIndex[e].postings :
            LET posting == searchIndex[e].postings[p]
            IN  posting.type = "article"
                => /\ posting.relevance =
                          ClaimedWeight(searchIndex[e].word,
                                        SnapshotArticle(posting), TagMatches)
                   /\ posting.relevance \in {1, 3, 4, 5, 6, 8}

\* C4 as stated, "matches a tag" read as "is a tag": the weight of an
\* article posting is 1, plus 3 when the token is a substring of the
\* lower-cased title, plus 2 when it is a substring of the lower-cased
\* lead, plus 2 when the token is one of the tags (lower-cased).
C4_TagBonusOnEqualTag ==
    ArticleWeightsAre(LAMBDA tag, word : ToLowerCase(tag) = word)

\* C4 amended: the same weight, with the 2 of the tags added when the token
\* is a substring of a lower-cased tag; every weight is one of 1, 3, 4, 5,
\* 6, 8.
C4_WeightFormula ==
    ArticleWeightsAre(LAMBDA tag, word : Includes(ToLowerCase(tag), word))

\* the index holds an article posting with every bonus, whose token is
\* inside a tag of two words and is not itself a tag
C4_Witness ==
    \E e \in DOMAIN searchIndex :
        \E p \in DOMAIN searchIndex[e].postings :
            LET posting == searchIndex[e].postings[p]
            IN  /\ posting.type = "article"
                /\ posting.relevance = 8
                /\ \A t \in DOMAIN SnapshotArticle(posting).tags :
                      ToLowerCase(SnapshotArticle(posting).tags[t])
                          # searchIndex[e].word

\* ---- C5
\* the ids of a result's articles
ReturnedArticleIds(result) ==
    { result.articles[i].doc.id : i \in DOMAIN result.articles }

\* C5: the index is rebuilt whenever createArticle, updateArticle or
\* deleteArticle changes the collection, before the next query: a query
\* returns only articles that are in the collection and published, and
\* returns every published article of the collection that contains the
\* query token.
C5_RebuiltOnChange ==
    [][ \A q \in Queries :
          Searched(q)
          => /\ \A id \in ReturnedArticleIds(returned'[1]) :
                   \E i \in DOMAIN articles :
                       /\ articles[i].id = id
                       /\ articles[i].status = ARTICLE_STATUS.PUBLISHED
             /\ \A i \in DOMAIN articles :
                   ( /\ articles[i].status = ARTICLE_STATUS.PUBLISHED
                     /\ \E w \in Range(ExtractWords(q)) :
                           w \in Range(ExtractWords(
                                     ArticleSearchableText(articles[i]))) )
                   => articles[i].id \in ReturnedArticleIds(returned'[1]) ]_vars

\* ---- C6
\* C6: after any build the index holds exactly the postings derived from
\* the documents that build read: every posting is of a document of the
\* snapshot and stands under a word of that document, every word of every
\* document of the snapshot has the document's postings, one for each time
\* the word stands in its text, and no word has two entries.
C6_IndexIsSnapshot ==
    LET docs == IndexedDocs(snapshot.articles, snapshot.users)
        keysUnder(e) == [p \in DOMAIN searchIndex[e].postings |->
                            ResultKey(searchIndex[e].postings[p])]
    IN  /\ \A e \in DOMAIN searchIndex :
              /\ searchIndex[e].postings # <<>>
              /\ \A f \in DOMAIN searchIndex :
                    searchIndex[f].word = searchIndex[e].word => f = e
              /\ \A k \in Range(keysUnder(e)) :
                    \E d \in DOMAIN docs :
                        /\ docs[d].key = k
                        /\ CountOf(keysUnder(e), k) =
                              CountOf(docs[d].words, searchIndex[e].word)
                        /\ CountOf(keysUnder(e), k) > 0
        /\ \A d \in DOMAIN docs :
              \A w \in Range(docs[d].words) :
                  \E e \in DOMAIN searchIndex :
                      /\ searchIndex[e].word = w
                      /\ docs[d].key \in Range(keysUnder(e))

\* the timer rebuilt the index of a page that had loaded with the demo
\* article indexed, after the article was deleted: its words are gone
C6_Witness ==
    /\ page = "settled"
    /\ clock = FirstTime
    /\ users = DemoUsers
    /\ storedArticles = <<>>
    /\ snapshot.articles = <<>>
    /\ searchIndex # <<>>
    /\ ~IndexHas(searchIndex, Wnovosti)

\* ---- C7
\* C7: between two builds, a change of the documents (an article created,
\* replaced or deleted, its views or likes counted, a user registered)
\* changes neither the index nor the result of any query, and a query
\* returns what the snapshot of the last build and the query text give.
C7_MutationsUnobserved ==
    [][ /\ ( page' = page /\ (articles' # articles \/ users' # users) )
           => /\ searchIndex' = searchIndex
              /\ \A q \in Queries :
                    SearchResult(searchIndex', q) = SearchResult(searchIndex, q)
        /\ \A q \in Queries :
              Searched(q)
              => returned'[1] =
                     SearchResult(BuildIndex(<<>>, snapshot.articles,
                                             snapshot.users), q) ]_vars

\* a query returned an article that is no longer in the collection
C7_Witness ==
    /\ returned # <<>>
    /\ page # "loading"
    /\ Documents # snapshot
    /\ \E id \in ReturnedArticleIds(returned[1]) :
          \A i \in DOMAIN articles : articles[i].id # id

\* ---- C8
\* C8: a build over the documents the last build read leaves an index that
\* answers every query as before: same documents, scores, order and total.
C8_BuildIdempotent ==
    [][ ( RebuildTimer /\ Documents = snapshot )
        => \A q \in IndexQueries :
              SearchResult(searchIndex', q) = SearchResult(searchIndex, q) ]_vars

\* the timer rebuilt the index over the articles and users the page
\* loaded with, and a query found documents in it
C8_Witness ==
    /\ page = "settled"
    /\ users = PoolUsers
    /\ articles # <<>>
    /\ Documents = snapshot
    /\ returned # <<>>
    /\ returned[1].total > 1

\* ---- C9
\* a character of a word: a letter, a digit or the underscore
IsWordChar(c) == c \in KeptChars \ SpaceChars

\* the text has no two word characters in a row, so no token of two
\* characters
NoToken(q) ==
    \A i \in 1..(Len(q) - 1) : ~(IsWordChar(q[i]) /\ IsWordChar(q[i + 1]))

\* C9: a query whose text has no token of at least 2 characters (the empty
\* string, "a", "a b", "!!") returns no articles, no authors and total 0,
\* and leaves the index as it is.
C9_NoTokenQuery ==
    [][ \A q \in IndexQueries :
          ( NoToken(q) /\ Searched(q) )
          => /\ returned'[1].articles = <<>>
             /\ returned'[1].authors = <<>>
             /\ returned'[1].total = 0
             /\ searchIndex' = searchIndex ]_vars

\* "a b" was answered with nothing over an index that has words with an
\* "a" in them
C9_Witness ==
    /\ returned # <<>>
    /\ lastQuery = Chars("a b")
    /\ returned[1].total = 0
    /\ \E e \in DOMAIN searchIndex : Includes(searchIndex[e].word, <<"a">>)

\* ---- C10
\* C10: a query returns at most 20 articles and at most 10 authors, the
\* highest-scored ones of the matched documents, as many as the limits
\* allow, and total is the number of matched documents before the cut.
C10_Truncation ==
    [][ \A q \in IndexQueries :
          Searched(q)
          => LET result == returned'[1]
                 words == ExtractWords(q)
                 score == [k \in IndexKeys(searchIndex) |->
                              ExpectedScore2(searchIndex, words, k)]
                 matched == { k \in DOMAIN score : score[k] > 0 }
                 Top(list, type, limit) ==
                     LET mine == { k \in matched : k[1] = type }
                         got == { ResultKey(list[i].doc) : i \in DOMAIN list }
                     IN  /\ Len(list) <= limit
                         /\ Len(list) = IF Cardinality(mine) < limit
                                        THEN Cardinality(mine) ELSE limit
                         /\ Cardinality(got) = Len(list)
                         /\ got \subseteq mine
                         /\ \A k \in mine \ got :
                               \A i \in DOMAIN list : score[k] <= list[i].score2
             IN  /\ Top(result.articles, "article", 20)
                 /\ Top(result.authors, "author", 10)
                 /\ result.total = Cardinality(matched) ]_vars

\* the largest collection, where every article and every user matches: the
\* lists are cut and total counts all
C10_Witness ==
    /\ returned # <<>>
    /\ Len(snapshot.articles) = MaxBulkArticles
    /\ Len(returned[1].articles) = MaxArticleResults
    /\ Len(returned[1].authors) = MaxAuthorResults
    /\ returned[1].total = MaxBulkArticles + MaxAuthorResults + 2

\* ---- C11
\* the keys of the documents of a result list, in its order
ListKeys(list) == [i \in DOMAIN list |-> ResultKey(list[i].doc)]

\* the scores of a list never go up
NonIncreasing(list) ==
    \A i \in 1..(Len(list) - 1) : list[i].score2 >= list[i + 1].score2

\* C11: in every query result each document (type and id) stands at most
\* once, every returned score is greater than zero, and the scores do not
\* go up along the articles nor along the authors.
C11_ResultWellFormed ==
    [][ \A q \in IndexQueries :
          Searched(q)
          => LET result == returned'[1]
                 keys == ListKeys(result.articles) \o ListKeys(result.authors)
             IN  /\ \A i, j \in DOMAIN keys : i # j => keys[i] # keys[j]
                 /\ \A i \in DOMAIN result.articles :
                       result.articles[i].score2 > 0
                 /\ \A i \in DOMAIN result.authors :
                       result.authors[i].score2 > 0
                 /\ NonIncreasing(result.articles)
                 /\ NonIncreasing(result.authors) ]_vars

\* a result with two articles of different scores, one of them hit more
\* than once, and an author
C11_Witness ==
    /\ returned # <<>>
    /\ Len(returned[1].articles) >= 2
    /\ returned[1].articles[1].score2 > returned[1].articles[2].score2
    /\ Len(returned[1].authors) >= 1
    /\ Len(AllHits(searchIndex, ExtractWords(lastQuery))) > returned[1].total

\* ---- C12
\* the tokens of an index
IndexWords(index) == { index[e].word : e \in DOMAIN index }

\* a step in which performSearch returns, called by the input handler or
\* by the search button
SearchedOrSubmitted ==
    \/ \E q \in IndexQueries : PerformSearch(q, FALSE)
    \/ \E text \in HistoryTexts : SubmitSearch(text)

\* C12: a query does not change the index: its tokens and the postings
\* under each token are the same after the query as before it, also when
\* the query is recorded in the search history.
C12_QueryKeepsIndex ==
    [][ SearchedOrSubmitted
        => /\ IndexWords(searchIndex') = IndexWords(searchIndex)
           /\ \A w \in IndexWords(searchIndex) :
                 IndexGet(searchIndex', w) = IndexGet(searchIndex, w)
           /\ searchIndex' = searchIndex ]_vars

\* a query with results was recorded at the head of the history, and the
\* index is the one built over the documents
C12_Witness ==
    /\ returned # <<>>
    /\ returned[1].total > 0
    /\ searchHistory # <<>>
    /\ searchHistory[1] = [query |-> lastQuery,
                           resultsCount |-> returned[1].total]
    /\ searchIndex = BuildIndex(<<>>, snapshot.articles, snapshot.users)
    /\ searchIndex # <<>>

\* ---- C13
\* the queries the button records
SubmittedQueries == { Trim(text) : text \in HistoryTexts }

\* C13: over an index that does not change, a query has one answer: in
\* every state of a page whose documents stay as stored, the index is the
\* one built over them, the last result is the answer of that index to the
\* last query, and every query recorded by the button, however many other
\* queries came after it, has the total the index gives it now.
C13_SameAnswer ==
    LET index == BuildIndex(<<>>, storedArticles, users)
    IN  /\ searchIndex = index
        /\ returned # <<>> => returned[1] = SearchResult(index, lastQuery)
        /\ \A i \in DOMAIN searchHistory :
              searchHistory[i].query \in SubmittedQueries
              => searchHistory[i].resultsCount
                    = SearchResult(index, searchHistory[i].query).total

\* a query was recorded, another one with other scores was recorded after
\* it, and the first one was run again and answered as before
C13_Witness ==
    /\ returned # <<>>
    /\ Len(searchHistory) >= 2
    /\ searchHistory[2].query \in SubmittedQueries
    /\ searchHistory[1].query \in SubmittedQueries
    /\ lastQuery = searchHistory[2].query
    /\ returned[1].total = searchHistory[2].resultsCount
    /\ returned[1].total > 0
    /\ SearchResult(searchIndex, searchHistory[1].query).articles
          # returned[1].articles

\* ---- C14
\* the query of the ranking questions
RankingQuery == Chars("miting")

\* the index was built over the exact-title article and article b
IsRanking(b) ==
    /\ snapshot.articles \in { <<ExactTitleArticle, b>>, <<b, ExactTitleArticle>> }
    /\ searchIndex = BuildIndex(<<>>, snapshot.articles, snapshot.users)

\* C14: of a document with the query token as a whole token of its title
\* and a document with it only inside a longer token, in whatever fields and
\* however many times, the query returns the exact-title document first.
C14_ExactTitleFirst ==
    [][ \A b \in LongerTokenArticles :
          ( IsRanking(b) /\ Searched(RankingQuery) )
          => /\ returned'[1].articles # <<>>
             /\ returned'[1].articles[1].doc.id = ExactTitleArticle.id ]_vars

\* ---- C15
\* the score of the article with this id in a result list, 0 when it is not
\* in it
ScoreOf(list, id) ==
    IF \E i \in DOMAIN list : list[i].doc.id = id
    THEN list[CHOOSE i \in DOMAIN list : list[i].doc.id = id].score2
    ELSE 0

\* C15: when the query token stands in the title of one article and only
\* in the body of another, the first article's score is strictly higher.
C15_TitleAboveBody ==
    [][ \A b \in BodyOnlyArticles :
          ( IsRanking(b) /\ Searched(RankingQuery) )
          => ScoreOf(returned'[1].articles, ExactTitleArticle.id)
                > ScoreOf(returned'[1].articles, b.id) ]_vars

\* ---- C16
\* the keys of the documents of the last build that have a word to be
\* indexed under
KeysToIndex ==
    { <<"article", snapshot.articles[i].id>> :
        i \in { j \in DOMAIN snapshot.articles :
                  /\ IsIndexed(snapshot.articles[j])
                  /\ ExtractWords(ArticleSearchableText(
                         FilledArticle(snapshot.articles[j]))) # <<>> } }
    \cup { <<"author", snapshot.users[i].id>> : i \in DOMAIN snapshot.users }

\* C16: a build does not throw on a document that lacks an optional field
\* (an article without lead, body, tags, category or publishedAt, a user
\* without bio): the document is indexed from its other fields, and the
\* documents after it are indexed too.
C16_MissingFieldsIndexed ==
    /\ page # "failed"
    /\ KeysToIndex \subseteq IndexKeys(searchIndex)

\* ---- C17
\* a step in which getSuggestions(q) returns
Suggested(q) == lastQuery' = q /\ Suggest(q)

\* C17: getSuggestions returns at most 8 suggestions, and the text of each
\* of them contains the query, letter case aside.
C17_AtMostEightContaining ==
    [][ \A q \in SuggestQueries :
          Suggested(q)
          => /\ Len(returned'[1]) <= 8
             /\ \A i \in DOMAIN returned'[1] :
                   Includes(ToLowerCase(returned'[1][i].text),
                            ToLowerCase(q)) ]_vars

\* eight suggestions were returned for "NA" where more than eight texts
\* contain it
C17_Witness ==
    /\ returned # <<>>
    /\ lastQuery = Chars("NA")
    /\ Len(returned[1]) = 8
    /\ Cardinality({ i \in DOMAIN searchSuggestions :
                       Includes(ToLowerCase(searchSuggestions[i].text),
                                Chars("na")) }) > 8

\* ---- C18
\* the text of suggestion s starts with query q, letter case aside
StartsWithQuery(s, q) ==
    /\ Len(s.text) >= Len(q)
    /\ ToLowerCase(SubSeq(s.text, 1, Len(q))) = ToLowerCase(q)

\* the place of a suggestion's pool: history terms, category labels, tags
PoolOf(s) ==
    CASE s.type = "term" -> 1 [] s.type = "category" -> 2 [] s.type = "tag" -> 3

\* C18: in the list getSuggestions returns, every suggestion whose text
\* starts with the query stands before every suggestion that only contains
\* it, and among the suggestions of either kind the history terms stand
\* before the category labels and these before the tags.
C18_StartsWithThenPool ==
    [][ \A q \in SuggestQueries :
          Suggested(q)
          => LET list == returned'[1]
             IN  \A i, j \in DOMAIN list :
                   i < j
                   => /\ StartsWithQuery(list[j], q)
                         => StartsWithQuery(list[i], q)
                      /\ ( StartsWithQuery(list[i], q)
                              = StartsWithQuery(list[j], q) )
                         => PoolOf(list[i]) <= PoolOf(list[j]) ]_vars

\* a returned list with a tag that starts with the query before a history
\* term that only contains it, and with terms, a category or tags of one
\* kind in the order of the pools
C18_Witness ==
    /\ returned # <<>>
    /\ Len(returned[1]) >= 3
    /\ \E i, j \in DOMAIN returned[1] :
          /\ i < j
          /\ returned[1][i].type = "tag"
          /\ StartsWithQuery(returned[1][i], lastQuery)
          /\ returned[1][j].type = "term"
          /\ ~StartsWithQuery(returned[1][j], lastQuery)
    /\ \E i, j \in DOMAIN returned[1] :
          /\ i < j
          /\ PoolOf(returned[1][i]) < PoolOf(returned[1][j])
          /\ StartsWithQuery(returned[1][i], lastQuery)
                = StartsWithQuery(returned[1][j], lastQuery)

\* ---- C19
\* the suggestions were built over articles of which five published ones
\* carry the tag "nauka" and no tag is carried by more
IsNaukaScenario ==
    LET counts == CountTags(<<>>, snapshot.articles, 1)
    IN  /\ \E i \in DOMAIN counts :
              counts[i].key = Chars("nauka") /\ counts[i].count = 5
        /\ \A i \in DOMAIN counts : counts[i].count <= 5
        /\ searchSuggestions = BuildSuggestions(searchHistory, snapshot.articles)
        /\ \A c \in DOMAIN CATEGORIES :
              \E i \in DOMAIN searchSuggestions :
                  /\ searchSuggestions[i].type = "category"
                  /\ searchSuggestions[i].text = CATEGORIES[c].name

\* C19: when five indexed articles carry the tag "nauka" and no other tag
\* is more frequent, getSuggestions("na") after the build has "nauka" among
\* its suggestions, whatever the search history.
C19_NaukaSuggested ==
    [][ ( IsNaukaScenario /\ Suggested(Chars("na")) )
        => \E i \in DOMAIN returned'[1] :
              returned'[1][i].text = Chars("nauka") ]_vars

\* ---- C20
\* nothing was found
IsEmptyAnswer(result) ==
    /\ result.articles = <<>>
    /\ result.authors = <<>>
    /\ result.total = 0

\* C20: the Map the constructor makes, before any build, answers every
\* query with no articles, no authors and total 0, and so does the index
\* that was built over no articles and no users.
C20_EmptyIndexAnswers ==
    [][ \A q \in IndexQueries :
          /\ IsEmptyAnswer(SearchResult(<<>>, q))
          /\ ( /\ snapshot.articles = <<>>
               /\ snapshot.users = <<>>
               /\ Searched(q) )
             => /\ searchIndex = <<>>
                /\ IsEmptyAnswer(returned'[1]) ]_vars

\* a query of two words was answered with nothing by the index of the
\* first load, built before the demonstration data was stored
C20_Witness ==
    /\ returned # <<>>
    /\ snapshot = [articles |-> <<>>, users |-> <<>>]
    /\ lastQuery = Chars("Miting novosti")
    /\ IsEmptyAnswer(returned[1])
    /\ storedArticles # <<>>

\* ---- C21
\* a token as the contract describes it: lower-case letters and digits
\* only, at least two of them
IsAlphanumericToken(w) ==
    /\ Len(w) >= 2
    /\ \A i \in DOMAIN w : w[i] \in Range(LowerChars) \cup DigitChars

\* C21: every token, as a key of the index or as a token of a query, is in
\* lower case, has at least 2 characters and consists of letters and digits
\* only: punctuation, symbols and the underscore separate tokens.
C21_TokensAlphanumeric ==
    /\ \A e \in DOMAIN searchIndex : IsAlphanumericToken(searchIndex[e].word)
    /\ \A q \in IndexQueries :
          \A i \in DOMAIN ExtractWords(q) :
              IsAlphanumericToken(ExtractWords(q)[i])

\* ---- C22
\* the article postings of the index, each with its weight and the fields
\* of the article that contain its token (the body and the category label
\* are the fields without a bonus)
WeighedPostings ==
    UNION { { LET posting == searchIndex[e].postings[p]
                  word == searchIndex[e].word
                  article == SnapshotArticle(posting)
              IN  [weight |-> posting.relevance,
                   title |-> Includes(ToLowerCase(article.title), word),
                   lead |-> Includes(ToLowerCase(article.lead), word),
                   tags |-> \E t \in DOMAIN article.tags :
                               Includes(ToLowerCase(article.tags[t]), word)] :
              p \in { k \in DOMAIN searchIndex[e].postings :
                        searchIndex[e].postings[k].type = "article" } } :
            e \in DOMAIN searchIndex }

OnlyTitle(w) == w.title /\ ~w.lead /\ ~w.tags
OnlyTags(w)  == w.tags /\ ~w.title /\ ~w.lead
OnlyLead(w)  == w.lead /\ ~w.title /\ ~w.tags
OnlyBody(w)  == ~w.title /\ ~w.lead /\ ~w.tags

SnapshotUser(posting) ==
    snapshot.users[CHOOSE i \in DOMAIN snapshot.users :
                       snapshot.users[i].id = posting.id]

\* C23: the weight of every author posting is 1, plus 2 when its token is a
\* substring of the author's bio, as the lead bonus of an article.
C23_AuthorBioBonus ==
    \A e \in DOMAIN searchIndex :
        \A p \in DOMAIN searchIndex[e].postings :
            LET posting == searchIndex[e].postings[p]
            IN  posting.type = "author"
                => posting.relevance =
                      1 + (IF Includes(ToLowerCase(SnapshotUser(posting).bio),
                                       searchIndex[e].word)
                           THEN 2 ELSE 0)

\* ---- C24
\* the article with this id was published when the last build read it
WasPublished(id) ==
    \E i \in DOMAIN snapshot.articles :
        /\ snapshot.articles[i].id = id
        /\ snapshot.articles[i].status = "published"

\* C24: every article posting of the index refers to an article that was
\* published when the build ran, and so does every article of a query
\* result: draft, pending and archived articles are not indexed and not
\* returned.
C24_OnlyPublishedIndexed ==
    /\ \A e \in DOMAIN searchIndex :
          \A p \in DOMAIN searchIndex[e].postings :
              searchIndex[e].postings[p].type = "article"
              => WasPublished(searchIndex[e].postings[p].id)
    /\ returned # <<>>
       => \A i \in DOMAIN returned[1].articles :
             WasPublished(returned[1].articles[i].doc.id)

\* of four articles with the same title, one of every status, a query for
\* the title returned the published one only
C24_Witness ==
    /\ returned # <<>>
    /\ { snapshot.articles[i].status : i \in DOMAIN snapshot.articles }
          = {"draft", "pending", "published", "archived"}
    /\ Len(returned[1].articles) = 1
    /\ returned[1].articles[1].doc.title = Chars("Miting")
    /\ returned[1].total >= 1

\* ---- C25
\* the keys of the demonstration users
DemoUserKeys == { <<"author", DemoUsers[i].id>> : i \in DOMAIN DemoUsers }

\* the first load of a page: nothing was stored, the constructors read
\* nothing, and the DOMContentLoaded handler has stored the demonstration
\* data
IsFirstLoad ==
    /\ snapshot = [articles |-> <<>>, users |-> <<>>]
    /\ searchIndex = <<>>
    /\ articles = <<>>
    /\ storedArticles = DemoArticles(FirstTime)
    /\ users = DemoUsers

RoleOfUser(id) ==
    IF \E u \in DOMAIN users : users[u].id = id
    THEN users[CHOOSE u \in DOMAIN users : users[u].id = id].role
    ELSE ""

\* C29: a deleteArticle that succeeds was called by an authenticated user;
\* when this user is an author, the article is the user's own and is not
\* published; when the user is an editor, the article's author is not an
\* administrator.  A call that fails throws: no step removes an article in
\* any other way, and a delete removes the one article only.
C29_DeletePermissions ==
    [][ \A id \in ArticleIds :
          DeleteArticle(id)
          => LET article == articles[FindIndex(articles, id)]
             IN  /\ currentUser # <<>>
                 /\ currentUser[1].role = "author"
                    => /\ article.authorId = currentUser[1].id
                       /\ article.status # "published"
                 /\ currentUser[1].role = "editor"
                    => RoleOfUser(article.authorId) # "admin"
                 /\ \A i \in DOMAIN articles :
                       articles[i].id # id
                       => \E j \in DOMAIN articles' : articles'[j] = articles[i]
      ]_vars

\* the last article of the collection was deleted (the storage, seeded on
\* the first load, was saved empty) and an author is logged in
C29_Witness ==
    /\ page # "loading"
    /\ storedArticles = <<>>
    /\ articles = <<>>
    /\ users # <<>>
    /\ currentUser # <<>>
    /\ currentUser[1].role = "author"

\* ---- C26
\* no two entries of a history have the same query
HasDistinctQueries(history) ==
    \A i, j \in DOMAIN history :
        i # j => history[i].query # history[j].query

\* C26: whatever is added to the history or cleared, the history holds at
\* most 50 entries with different queries; a recorded query stands at the
\* front, followed by the earlier entries in their order without the entry
\* that had the same query (the oldest ones fall off after 50); a clear
\* leaves no entry.
C26_HistoryBounded ==
    [][ /\ Len(searchHistory') <= 50
        /\ HasDistinctQueries(searchHistory')
        /\ \A text \in HistoryTexts :
              ( SubmitSearch(text) /\ Len(Trim(text)) >= 2 )
              => /\ searchHistory'[1].query = Trim(text)
                 /\ Tail(searchHistory')
                       = Slice(SelectSeq(searchHistory, LAMBDA item :
                                         item.query # Trim(text)), 49)
        /\ ClearSearchHistory => searchHistory' = <<>> ]_vars

\* a query was recorded in a full history: it stands at the front, the
\* oldest entry fell off; and a query was recorded again and moved to the
\* front
C26_Witness ==
    /\ Len(searchHistory) = 50
    /\ searchHistory[1].query = Chars("Miting novosti")
    /\ searchHistory[2].query = Chars("miting")
    /\ searchHistory[50].query = <<"q">> \o Chars(ToString(48))
    /\ lastQuery = Chars("Miting novosti")

\* ---- C27
\* article a passes every filter that is not empty
PassesFilters(a, filters) ==
  LET ArticleDate(article) ==
          IF article.publishedAt # 0 THEN article.publishedAt
          ELSE article.createdAt
  IN
    /\ a.status = ARTICLE_STATUS.PUBLISHED
    /\ filters.category # <<>> => a.category = filters.category
    /\ filters.author # 0 => a.authorId = filters.author
    /\ filters.dateFrom # <<>>
       => /\ filters.dateFrom[1].valid
          /\ ArticleDate(a) >= filters.dateFrom[1].time
    /\ filters.dateTo # <<>>
       => /\ filters.dateTo[1].valid
          /\ ArticleDate(a) <= filters.dateTo[1].time
    /\ filters.tags # <<>>
       => \E f \in DOMAIN filters.tags : \E t \in DOMAIN a.tags :
              Includes(ToLowerCase(a.tags[t]), ToLowerCase(filters.tags[f]))

\* C27: every article advancedSearch returns is published now and passes
\* every filter that is not empty; with a text of 2 characters or more the
\* returned articles are among the at most 20 articles of the text query
\* and stand by non-increasing text score.
C27_FilteredWithinTextResults ==
    [][ \A filters \in AdvancedFilters :
          ( lastQuery' = filters /\ AdvancedSearchCall(filters) )
          => LET found == returned'[1].articles
                 text  == SearchResult(searchIndex, filters.query).articles
             IN  /\ \A i \in DOMAIN found :
                       \E k \in DOMAIN articles :
                           /\ articles[k].id = found[i].id
                           /\ PassesFilters(articles[k], filters)
                 /\ Len(filters.query) >= 2
                    => /\ Len(text) <= 20
                       /\ \A i \in DOMAIN found :
                             \E k \in DOMAIN text :
                                 text[k].doc.id = found[i].id
                       /\ \A i, j \in DOMAIN found :
                             i < j => ScoreOf(text, found[i].id)
                                      >= ScoreOf(text, found[j].id) ]_vars

\* a text with a tag filter returned articles of different text scores, and
\* a published article with the tag and the word, ranked below the 20th
\* place of the text query, is not returned
C27_Witness ==
    /\ returned # <<>>
    /\ "tags" \in DOMAIN lastQuery
    /\ lastQuery.query = Chars("miting")
    /\ lastQuery.tags = <<Chars("sport")>>
    /\ LET found == returned[1].articles
           text  == SearchResult(searchIndex, lastQuery.query).articles
           every == ResultMapOf(searchIndex, lastQuery.query)
       IN  /\ Len(found) >= 2
           /\ ScoreOf(text, found[1].id) > ScoreOf(text, found[Len(found)].id)
           /\ \E k \in DOMAIN articles :
                 /\ PassesFilters(articles[k], lastQuery)
                 /\ \E e \in DOMAIN every : every[e].doc.id = articles[k].id
                 /\ \A i \in DOMAIN found : found[i].id # articles[k].id

\* ---- C28
\* C28: when the timeout of the debounced search runs performSearch, it
\* runs it with the query typed last, one delay after the last input event,
\* and it is the only run of the burst.
C28_RunsLastTypedQuery ==
    [][ DebouncedSearchFires
        => /\ lastQuery' = typed[Len(typed)]
           /\ sinceInput = DebounceDelay
           /\ runs' = <<typed[Len(typed)]>> ]_vars

\* ---- C30
\* the ids of the comments of the page
CommentIds == { comments[i].id : i \in DOMAIN comments }

\* the ids of comment id and of its direct and indirect replies among cs,
\* found by going down n levels from the set ids
RECURSIVE WithReplies(_, _, _)
WithReplies(cs, ids, n) ==
    IF n = 0 THEN ids
    ELSE WithReplies(cs,
                     ids \cup { cs[i].id : i \in { k \in DOMAIN cs :
                                                     cs[k].parentId \in ids } },
                     n - 1)

\* C30: a deleteComment(c) that succeeds takes c and every direct or
\* indirect reply to c out, leaves every other comment in its place, and
\* leaves no comment whose parentId is the id of a comment it took out.
C30_RepliesDeleted ==
    [][ \A c \in CommentIds :
          DeleteComment(c)
          => LET gone == WithReplies(comments, {c}, Len(comments))
             IN  /\ comments' = SelectSeq(comments, LAMBDA x : x.id \notin gone)
                 /\ \A i \in DOMAIN comments' :
                       comments'[i].parentId \notin gone ]_vars

\* a comment went with a reply and a reply to that reply, and another
\* comment stays
C30_Witness ==
    /\ \E a, b, c \in deleted :
          /\ a.parentId = 0
          /\ b.parentId = a.id
          /\ c.parentId = b.id
    /\ comments # <<>>

=============================================================================
